---- MODULE Spec2Model ----
(***************************************************************************)
(* Icon resolution and cache of the Simple Icons plugin                    *)
(* (src/src/IconResolver.ts), driven by the file events wired up in        *)
(* src/src/main.ts and by the settings handlers of src/src/SettingsTab.ts. *)
(*                                                                         *)
(* JavaScript strings on which the code calls trim / startsWith / replace  *)
(* / split are sequences of one-character strings, so that these           *)
(* operations are computed and not assumed.  JavaScript values are records *)
(* [k, s, a]: k is the typeof-like kind, s the string content (for a       *)
(* non-string scalar: what String(v) gives), a the members of an array.    *)
(***************************************************************************)
EXTENDS Integers, Sequences, FiniteSets, TLC

\* ------------------------------------------------------------------------
\* Bounds of the model
\* ------------------------------------------------------------------------
MaxTagRules == 2
MaxFolderRules == 2
MaxFiles == 2
MaxPending == 1

\* ------------------------------------------------------------------------
\* JavaScript strings
\* ------------------------------------------------------------------------
Whitespace == {" ", "\t"}

RECURSIVE TrimStart(_)
TrimStart(s) ==
  IF s # << >> /\ Head(s) \in Whitespace THEN TrimStart(Tail(s)) ELSE s

RECURSIVE TrimEnd(_)
TrimEnd(s) ==
  IF s # << >> /\ s[Len(s)] \in Whitespace
  THEN TrimEnd(SubSeq(s, 1, Len(s) - 1))
  ELSE s

\* String.prototype.trim
Trim(s) == TrimEnd(TrimStart(s))

\* String.prototype.startsWith
StartsWith(s, p) == Len(p) <= Len(s) /\ SubSeq(s, 1, Len(p)) = p

\* s.startsWith("#") ? s.substring(1) : s
StripHash(s) == IF StartsWith(s, <<"#">>) THEN Tail(s) ELSE s

\* s.replace(/^\//, "")
StripLeadingSlash(s) == IF StartsWith(s, <<"/">>) THEN Tail(s) ELSE s

\* s.replace(/\/$/, "")
StripTrailingSlash(s) ==
  IF s # << >> /\ s[Len(s)] = "/" THEN SubSeq(s, 1, Len(s) - 1) ELSE s

\* s.split("/").length
SplitLength(s) == 1 + Cardinality({i \in 1..Len(s) : s[i] = "/"})

\* ------------------------------------------------------------------------
\* JavaScript values
\* ------------------------------------------------------------------------
Undefined == [k |-> "undefined", s |-> << >>, a |-> << >>]
Null == [k |-> "null", s |-> << >>, a |-> << >>]
Str(s) == [k |-> "string", s |-> s, a |-> << >>]
Num(s) == [k |-> "number", s |-> s, a |-> << >>]
Arr(a) == [k |-> "object", s |-> << >>, a |-> a]

\* the truthiness test of `if (v)` and `v && ...` for the values used here
Truthy(v) ==
  \/ v.k = "string" /\ v.s # << >>
  \/ v.k = "number" /\ v.s # <<"0">>
  \/ v.k = "object"

\* ------------------------------------------------------------------------
\* Strings used as inputs
\* ------------------------------------------------------------------------
Work == <<"w", "o", "r", "k">>
Active == <<"a", "c", "t", "i", "v", "e">>
Other == <<"o", "t", "h", "e", "r">>
Workshop == <<"w", "o", "r", "k", "s", "h", "o", "p">>
XMd == <<"x", ".", "m", "d">>
Slash == <<"/">>

WorkActiveX == Work \o Slash \o Active \o Slash \o XMd
WorkOtherX == Work \o Slash \o Other \o Slash \o XMd
WorkshopX == Workshop \o Slash \o XMd

Urgent == <<"u", "r", "g", "e", "n", "t">>
Project == <<"p", "r", "o", "j", "e", "c", "t">>

Star == <<"s", "t", "a", "r">>
Alert == <<"a", "l", "e", "r", "t">>
FolderIcon == <<"f", "o", "l", "d", "e", "r">>
Briefcase == <<"b", "r", "i", "e", "f", "c", "a", "s", "e">>
Zap == <<"z", "a", "p">>
Blank == <<" ">>
Empty == << >>

\* ------------------------------------------------------------------------
\* Settings (src/src/types.ts)
\* ------------------------------------------------------------------------
TagMapping(tag, icon) == [tag |-> tag, icon |-> icon]
FolderMapping(path, icon) == [path |-> path, icon |-> icon]

DEFAULT_SETTINGS ==
  [enableFrontmatter |-> TRUE,
   frontmatterProperty |-> "icon",
   enableTags |-> FALSE,
   enableFolders |-> FALSE,
   renderInWikilinks |-> TRUE,
   renderInFileView |-> TRUE,
   renderInFileLists |-> TRUE,
   tagMappings |-> << >>,
   folderMappings |-> << >>]

\* ------------------------------------------------------------------------
\* Host metadata (obsidian CachedMetadata, as far as the resolver reads it)
\*   exists = FALSE      getFileCache returned null
\*   tags                the inline tags (t.tag of each TagCache)
\*   hasFrontmatter      metadata.frontmatter is present
\*   frontmatter         property name -> value (Undefined when absent)
\* ------------------------------------------------------------------------
PropertyNames == {"icon", "emoji", "tags"}

NoFrontmatter == [p \in PropertyNames |-> Undefined]

Metadata(tags, hasFm, fm) ==
  [exists |-> TRUE, tags |-> tags, hasFrontmatter |-> hasFm,
   frontmatter |-> fm]

NoMetadata ==
  [exists |-> FALSE, tags |-> << >>, hasFrontmatter |-> FALSE,
   frontmatter |-> NoFrontmatter]

Frontmatter(icon, emoji, tags) ==
  [p \in PropertyNames |->
     IF p = "icon" THEN icon ELSE IF p = "emoji" THEN emoji ELSE tags]

\* ------------------------------------------------------------------------
\* IconResolver: the three tiers
\* ------------------------------------------------------------------------
\* mapping.icon && mapping.icon.trim() !== ""
NonBlankIcon_NoTrim(icon) == icon # << >>

NonBlankIcon(icon) == icon # << >> /\ Trim(icon) # << >>

\* plausible slips: the value is not tested for being a string; the string
\* is not tested for being blank
getIconFromFrontmatter_NoTypeCheck(settings, metadata) ==
  LET property == IF settings.frontmatterProperty # ""
                  THEN settings.frontmatterProperty
                  ELSE "icon"
      iconName == metadata.frontmatter[property]
  IN IF metadata.hasFrontmatter /\ Truthy(iconName)
        /\ Trim(iconName.s) # << >>
     THEN iconName
     ELSE Null

getIconFromFrontmatter_NoTrim(settings, metadata) ==
  LET property == IF settings.frontmatterProperty # ""
                  THEN settings.frontmatterProperty
                  ELSE "icon"
      iconName == metadata.frontmatter[property]
  IN IF metadata.hasFrontmatter /\ iconName.k = "string"
        /\ iconName.s # << >>
     THEN iconName
     ELSE Null

getIconFromFrontmatter(settings, metadata) ==
  LET property == IF settings.frontmatterProperty # ""
                  THEN settings.frontmatterProperty
                  ELSE "icon"
      iconName == metadata.frontmatter[property]
  IN IF metadata.hasFrontmatter /\ iconName.k = "string"
        /\ Trim(iconName.s) # << >>
     THEN iconName
     ELSE Null

\* the tag of one inline TagCache / one string member of frontmatter.tags
NormalizeTag_NoStrip(tag) == Trim(tag)

NormalizeTag(tag) == StripHash(Trim(tag))

\* one member of the frontmatter tags array
NormalizeFrontmatterTag(v) ==
  IF v.k = "string" THEN NormalizeTag(v.s) ELSE Trim(v.s)

\* allTags of getIconFromTags: inline tags first, then frontmatter tags
AllTags(metadata) ==
  LET inline == [i \in 1..Len(metadata.tags) |->
                   NormalizeTag(metadata.tags[i])]
      fmTags == metadata.frontmatter["tags"]
      fromFm ==
        IF metadata.hasFrontmatter /\ Truthy(fmTags)
        THEN IF fmTags.k = "object"
             THEN [i \in 1..Len(fmTags.a) |->
                     NormalizeFrontmatterTag(fmTags.a[i])]
             ELSE IF fmTags.k = "string"
                  THEN <<NormalizeTag(fmTags.s)>>
                  ELSE << >>
        ELSE << >>
  IN inline \o fromFm

Includes(seq, x) == \E i \in 1..Len(seq) : seq[i] = x

RECURSIVE TagLoop(_, _, _)
TagLoop(tagMappings, i, allTags) ==
  IF i > Len(tagMappings) THEN Null
  ELSE LET mapping == tagMappings[i]
           normalizedMappingTag == StripHash(Trim(mapping.tag))
       IN IF Includes(allTags, normalizedMappingTag)
             /\ NonBlankIcon(mapping.icon)
          THEN Str(mapping.icon)
          ELSE TagLoop(tagMappings, i + 1, allTags)

\* a plausible slip: the file's tags drive the search, not the rule list
RECURSIVE FileTagLoop(_, _, _)
FileTagLoop(tagMappings, j, allTags) ==
  IF j > Len(allTags) THEN Null
  ELSE LET hit == TagLoop(tagMappings, 1, <<allTags[j]>>)
       IN IF hit # Null THEN hit
          ELSE FileTagLoop(tagMappings, j + 1, allTags)

getIconFromTags_ByFileTag(settings, metadata) ==
  FileTagLoop(settings.tagMappings, 1, AllTags(metadata))

getIconFromTags(settings, metadata) ==
  LET allTags == AllTags(metadata)
  IN IF allTags = << >> THEN Null
     ELSE TagLoop(settings.tagMappings, 1, allTags)

NormalizeFolderPath(path) == StripTrailingSlash(StripLeadingSlash(path))

\* filePath.startsWith(folderPath + "/") || filePath.startsWith(folderPath)
FolderMatches(filePath, folderPath) ==
  \/ StartsWith(filePath, folderPath \o <<"/">>)
  \/ StartsWith(filePath, folderPath)

NoMatch == [depth |-> 0, icon |-> << >>, found |-> FALSE]

RECURSIVE FolderLoop(_, _, _, _)
FolderLoop(folderMappings, i, filePath, deepestMatch) ==
  IF i > Len(folderMappings) THEN deepestMatch
  ELSE LET mapping == folderMappings[i]
           folderPath == NormalizeFolderPath(mapping.path)
           depth == SplitLength(folderPath)
           next ==
             IF FolderMatches(filePath, folderPath)
                /\ (~deepestMatch.found \/ depth > deepestMatch.depth)
                /\ NonBlankIcon(mapping.icon)
             THEN [depth |-> depth, icon |-> mapping.icon, found |-> TRUE]
             ELSE deepestMatch
       IN FolderLoop(folderMappings, i + 1, filePath, next)

\* a plausible slip: the last matching rule wins, whatever its depth
RECURSIVE FolderLoop_LastWins(_, _, _, _)
FolderLoop_LastWins(folderMappings, i, filePath, deepestMatch) ==
  IF i > Len(folderMappings) THEN deepestMatch
  ELSE LET mapping == folderMappings[i]
           folderPath == NormalizeFolderPath(mapping.path)
           next ==
             IF FolderMatches(filePath, folderPath)
                /\ NonBlankIcon(mapping.icon)
             THEN [depth |-> SplitLength(folderPath),
                   icon |-> mapping.icon, found |-> TRUE]
             ELSE deepestMatch
       IN FolderLoop_LastWins(folderMappings, i + 1, filePath, next)

getIconFromFolder_LastWins(settings, filePath) ==
  LET deepestMatch ==
        FolderLoop_LastWins(settings.folderMappings, 1, filePath, NoMatch)
  IN IF deepestMatch.found /\ deepestMatch.icon # << >>
     THEN Str(deepestMatch.icon)
     ELSE Null

\* deepestMatch?.icon || null
getIconFromFolder(settings, filePath) ==
  LET deepestMatch ==
        FolderLoop(settings.folderMappings, 1, filePath, NoMatch)
  IN IF deepestMatch.found /\ deepestMatch.icon # << >>
     THEN Str(deepestMatch.icon)
     ELSE Null

\* ------------------------------------------------------------------------
\* IconResolver.getIconForFile, the part after the cache check: the value
\* it computes from the settings, the metadata it read and the file path
\* ------------------------------------------------------------------------
FrontmatterTier(settings, metadata) ==
  IF settings.enableFrontmatter /\ metadata.exists /\ metadata.hasFrontmatter
  THEN getIconFromFrontmatter(settings, metadata)
  ELSE Null

TagTier(settings, metadata) ==
  IF settings.enableTags /\ metadata.exists
  THEN getIconFromTags(settings, metadata)
  ELSE Null

FolderTier(settings, filePath) ==
  IF settings.enableFolders
  THEN getIconFromFolder(settings, filePath)
  ELSE Null

FirstTruthy(v1, v2, v3) ==
  IF Truthy(v1) THEN v1
  ELSE IF Truthy(v2) THEN v2
       ELSE IF Truthy(v3) THEN v3
            ELSE Null

\* plausible slips: the tiers consulted in another order, a toggle ignored
ResolveIcon_TagsFirst(settings, metadata, filePath) ==
  FirstTruthy(TagTier(settings, metadata),
              FrontmatterTier(settings, metadata),
              FolderTier(settings, filePath))

ResolveIcon_FoldersFirst(settings, metadata, filePath) ==
  FirstTruthy(FrontmatterTier(settings, metadata),
              FolderTier(settings, filePath),
              TagTier(settings, metadata))

ResolveIcon_TagToggleIgnored(settings, metadata, filePath) ==
  FirstTruthy(FrontmatterTier(settings, metadata),
              IF metadata.exists THEN getIconFromTags(settings, metadata)
              ELSE Null,
              FolderTier(settings, filePath))

ResolveIcon(settings, metadata, filePath) ==
  FirstTruthy(FrontmatterTier(settings, metadata),
              TagTier(settings, metadata),
              FolderTier(settings, filePath))

\* ------------------------------------------------------------------------
\* IconResolver: the cache
\* ------------------------------------------------------------------------
\* this.cache[file.path] !== undefined
CacheHit_Truthy(cache, path) == Truthy(cache[path])

CacheHit(cache, path) == cache[path] # Undefined

\* delete this.cache[file.path]
invalidateFile_Noop(cache, path) == cache

invalidateFile_All(cache, path) == [p \in DOMAIN cache |-> Undefined]

invalidateFile(cache, path) == [cache EXCEPT ![path] = Undefined]

\* this.cache = {}
clearCache_Noop(cache) == cache

clearCache(cache) == [p \in DOMAIN cache |-> Undefined]

\* ------------------------------------------------------------------------
\* Inputs
\* ------------------------------------------------------------------------
RECURSIVE SeqsUpTo(_, _)
SeqsUpTo(S, n) ==
  IF n = 0 THEN {<< >>}
  ELSE LET shorter == SeqsUpTo(S, n - 1)
       IN shorter \cup {Append(q, x) : q \in shorter, x \in S}

Paths == {WorkActiveX, WorkOtherX, WorkshopX}

TagRuleInputs ==
  {TagMapping(Urgent, Alert),
   TagMapping(<<" ", "#">> \o Project, FolderIcon),
   TagMapping(<<"#">> \o Urgent, Blank)}

FolderRuleInputs ==
  {FolderMapping(Work, Briefcase),
   FolderMapping(Slash \o Work \o Slash \o Active \o Slash, Zap),
   FolderMapping(Work \o Slash \o Active, Empty)}

MetadataInputs ==
  {NoMetadata,
   Metadata(<<<<"#">> \o Urgent, <<"#">> \o Project>>, FALSE, NoFrontmatter),
   Metadata(<<<<"#">> \o Project, <<"#">> \o Urgent>>, FALSE, NoFrontmatter),
   Metadata(<< >>, TRUE,
            Frontmatter(Str(Star), Str(Star \o <<" ">>),
                        Arr(<<Str(<<" ", "#">> \o Urgent \o <<" ">>),
                              Str(Project)>>))),
   Metadata(<<<<"#">> \o Project>>, TRUE,
            Frontmatter(Str(Blank), Undefined, Undefined)),
   Metadata(<< >>, TRUE,
            Frontmatter(Num(<<"7">>), Str(Empty), Str(Project)))}

SettingsInputs ==
  {[DEFAULT_SETTINGS EXCEPT
      !.enableFrontmatter = ef, !.enableTags = et, !.enableFolders = efo,
      !.frontmatterProperty = prop,
      !.tagMappings = tm, !.folderMappings = fm] :
     ef \in BOOLEAN, et \in BOOLEAN, efo \in BOOLEAN,
     prop \in {"", "emoji"},
     tm \in SeqsUpTo(TagRuleInputs, MaxTagRules),
     fm \in SeqsUpTo(FolderRuleInputs, MaxFolderRules)}

\* ------------------------------------------------------------------------
\* State
\*   settings      the one settings object shared by plugin and resolver
\*   files         paths of the files that exist in the vault
\*   meta          what app.metadataCache.getFileCache returns for a path
\*   cache         IconResolver.cache
\*   pending       settings handlers suspended at `await saveSettings()`:
\*                 what each one does when it resumes
\*   lastOp        the operation that ran last, its argument and outcome
\*   lastReturned  per path: the value the last getIconForFile returned
\*                 since the path was last invalidated (NoCall if none)
\*   invalidated   per path: the entry that invalidateFile removed (Undefined
\*                 if there was none), while no getIconForFile has followed;
\*                 NoCall otherwise
\* ------------------------------------------------------------------------
VARIABLES settings, files, meta, cache, pending, lastOp, lastReturned,
          invalidated,
          screen, dom, refreshed, loaded, observers, timers, subs, dispatch,
          modal, disk,
          editors, lastUpdate,
          hostTimers, debounceTimers, records, container, installed, burst

resolverVars == <<settings, files, meta, cache, pending, lastOp,
                  lastReturned, invalidated>>

\* the document the renderers write to, and the live-preview refresh signal
domVars == <<screen, dom, refreshed>>

\* what a loaded renderer holds of the host: observers, timers, handlers
lifeVars == <<loaded, observers, timers, subs, dispatch>>

\* the tag-mapping modal and the plugin's data.json
modalVars == <<modal, disk>>

\* the live-preview editor views and, of each, what its last update did
editorVars == <<editors, lastUpdate>>

\* the host's timer table, ObserverManager.debounceTimers, the mutation
\* records waiting for delivery, the file explorer's container and the
\* observers installed on it, and what the last debounce call of a key was
schedVars == <<hostTimers, debounceTimers, records, container, installed,
               burst>>

hostVars == <<editorVars, schedVars>>

uiVars == <<domVars, lifeVars, modalVars, hostVars>>

vars == <<resolverVars, uiVars>>

\* ------------------------------------------------------------------------
\* The document: the elements that show a file, one list per query the
\* renderers run, in document order
\* ------------------------------------------------------------------------
El(surface, file) == [surface |-> surface, file |-> file]

\* a[href].internal-link of a rendered note (markdown post processor)
WikiLinks == <<El("wikilink", WorkActiveX)>>

\* widget decorations of a live-preview editor (EditorExtension)
Decorations == <<El("decoration", WorkActiveX)>>

\* .nav-file-title[data-path] rows of the file explorer
NavFiles == <<El("nav", WorkActiveX), El("nav", WorkshopX)>>

\* .search-result-file-title[data-path] rows of the search pane
SearchResults == <<El("search", WorkActiveX)>>

\* workspace.getLeavesOfType("markdown"): the file of each leaf; the first
\* leaf is workspace.activeLeaf
Leaves == <<WorkActiveX, WorkshopX>>

ActiveLeafFile == Leaves[1]

\* .workspace-tab-header-inner-title, one per leaf
TabHeaders == <<El("tab", WorkActiveX), El("tab", WorkshopX)>>

\* .inline-title, one per leaf
InlineTitles == <<El("title", WorkActiveX), El("title", WorkshopX)>>

\* .suggestion-item[data-path] rows of the link suggester
Suggestions == <<El("suggestion", WorkActiveX)>>

\* div.metadata-link-inner.internal-link[data-href] of the properties panel
MetadataLinks == <<El("metalink", WorkActiveX)>>

Range(seq) == {seq[i] : i \in 1..Len(seq)}

Elements ==
  Range(WikiLinks) \cup Range(Decorations) \cup Range(NavFiles)
    \cup Range(SearchResults) \cup Range(TabHeaders)
    \cup Range(InlineTitles) \cup Range(Suggestions)
    \cup Range(MetadataLinks)

\* TFile.name: the part of the path after the last "/"
RECURSIVE FileName(_)
FileName(path) ==
  IF \E i \in 1..Len(path) : path[i] = "/"
  THEN FileName(Tail(path))
  ELSE path

\* TFile.basename: the name without its extension
RECURSIVE DropExtension(_)
DropExtension(name) ==
  IF name = << >> THEN name
  ELSE IF name[Len(name)] = "."
       THEN SubSeq(name, 1, Len(name) - 1)
       ELSE IF \E i \in 1..Len(name) : name[i] = "."
            THEN DropExtension(SubSeq(name, 1, Len(name) - 1))
            ELSE name

Basename(path) == DropExtension(FileName(path))

\* textContent of a tab header: the title of the note it shows
HeaderText(header) == Basename(header.file)

\* nothing is on screen and no renderer, modal or data file is in play
DomIdle ==
  /\ screen = {}
  /\ dom = [e \in Elements |-> << >>]
  /\ refreshed = FALSE

LifeIdle ==
  /\ loaded = FALSE
  /\ observers = {}
  /\ timers = {}
  /\ subs = {}
  /\ dispatch = << >>

ModalIdle ==
  /\ modal = << >>
  /\ disk = << >>

EditorsIdle ==
  /\ editors = << >>
  /\ lastUpdate = << >>

SchedIdle ==
  /\ hostTimers = {}
  /\ debounceTimers = << >>
  /\ records = {}
  /\ container = FALSE
  /\ installed = 0
  /\ burst = << >>

HostIdle == EditorsIdle /\ SchedIdle

UiIdle == DomIdle /\ LifeIdle /\ ModalIdle /\ HostIdle

NoCall == [k |-> "nocall", s |-> << >>, a |-> << >>]

Op(op, file, oldPath, result, reads, prev, dropped) ==
  [op |-> op, file |-> file, oldPath |-> oldPath, result |-> result,
   reads |-> reads, prev |-> prev, dropped |-> dropped]

\* what a handler found in the cache when it cleared it
SomeEntries == [k |-> "entries", s |-> << >>, a |-> << >>]

NoOp == Op("none", << >>, << >>, Undefined, 0, NoCall, NoCall)

\* one call of IconResolver.getIconForFile on the cache c, with the settings
\* s and the host metadata mds: the value it returns, the cache it leaves,
\* the number of getFileCache queries it made
getIconForFile(c, s, mds, file) ==
  IF CacheHit(c, file)
  THEN [icon |-> c[file], cache |-> c, reads |-> 0]
  ELSE LET icon == ResolveIcon(s, mds[file], file)
       IN [icon |-> icon, cache |-> [c EXCEPT ![file] = icon], reads |-> 1]

\* a renderer (or the editor extension) asks for the icon of a file
GetIconForFile(file) ==
  /\ file \in files
  /\ LET call == getIconForFile(cache, settings, meta, file)
     IN /\ cache' = call.cache
        /\ lastOp' = Op("getIconForFile", file, << >>, call.icon,
                        call.reads, lastReturned[file], invalidated[file])
        /\ lastReturned' = [lastReturned EXCEPT ![file] = call.icon]
        /\ invalidated' = [invalidated EXCEPT ![file] = NoCall]
  /\ UNCHANGED <<settings, files, meta, pending>>
  /\ UNCHANGED uiVars

\* ------------------------------------------------------------------------
\* Resolution of one file under given settings and metadata
\* ------------------------------------------------------------------------
InitResolve ==
  /\ settings \in SettingsInputs
  /\ \E p \in Paths :
       /\ files = {p}
       /\ \E m \in MetadataInputs :
            meta = [q \in Paths |-> IF q = p THEN m ELSE NoMetadata]
  /\ cache = [p \in Paths |-> Undefined]
  /\ pending = << >>
  /\ lastOp = NoOp
  /\ lastReturned = [p \in Paths |-> NoCall]
  /\ invalidated = [p \in Paths |-> NoCall]
  /\ UiIdle

NextResolve == \E file \in files : GetIconForFile(file)

SpecResolve == InitResolve /\ [][NextResolve]_vars

\* ------------------------------------------------------------------------
\* The plugin at work: file events (src/src/main.ts) and settings handlers
\* (src/src/SettingsTab.ts) interleaved with icon lookups
\* ------------------------------------------------------------------------
VaultPaths == {WorkActiveX, WorkshopX}

VaultMetadata ==
  {NoMetadata,
   Metadata(<<<<"#">> \o Urgent>>, FALSE, NoFrontmatter),
   Metadata(<< >>, TRUE, Frontmatter(Str(Star), Undefined, Undefined))}

LoadedSettings ==
  [DEFAULT_SETTINGS EXCEPT
     !.enableTags = TRUE, !.enableFolders = TRUE,
     !.tagMappings = <<TagMapping(Urgent, Alert)>>,
     !.folderMappings = <<FolderMapping(Work, Briefcase)>>]

Init ==
  /\ settings = LoadedSettings
  /\ files \in {F \in SUBSET VaultPaths : Cardinality(F) <= MaxFiles}
  /\ meta \in {m \in [Paths -> VaultMetadata] :
                 \A p \in Paths \ files : m[p] = NoMetadata}
  /\ cache = [p \in Paths |-> Undefined]
  /\ pending = << >>
  /\ lastOp = NoOp
  /\ lastReturned = [p \in Paths |-> NoCall]
  /\ invalidated = [p \in Paths |-> NoCall]
  /\ UiIdle

\* iconResolver.invalidateFile(file) followed by
\* iconRenderer.updateSingleFileIcon(file); the re-render asks the resolver
\* for the icon when an element that shows the file is on screen (rendered)
InvalidateAndUpdate(op, file, oldPath, mds, rendered) ==
  LET c1 == invalidateFile(cache, file)
      call == getIconForFile(c1, settings, mds, file)
  IN IF rendered
     THEN /\ cache' = call.cache
          /\ lastOp' = Op(op, file, oldPath, call.icon, call.reads,
                          NoCall, cache[file])
          /\ lastReturned' = [lastReturned EXCEPT ![file] = call.icon]
          /\ invalidated' = [invalidated EXCEPT ![file] = NoCall]
     ELSE /\ cache' = c1
          /\ lastOp' = Op(op, file, oldPath, Undefined, 0, NoCall,
                          cache[file])
          /\ lastReturned' = [lastReturned EXCEPT ![file] = NoCall]
          /\ invalidated' = [invalidated EXCEPT ![file] = cache[file]]

\* metadataCache "changed": the host has re-indexed the file
MetadataChanged(file, m, rendered) ==
  /\ file \in files
  /\ m.exists
  /\ meta' = [meta EXCEPT ![file] = m]
  /\ InvalidateAndUpdate("changed", file, << >>, meta', rendered)
  /\ UNCHANGED <<settings, files, pending>>
  /\ UNCHANGED uiVars

\* vault "rename": the file at oldPath is now at file (its new path)
FileRenamed(file, oldPath, rendered) ==
  /\ oldPath \in files
  /\ file \in VaultPaths \ files
  /\ files' = (files \ {oldPath}) \cup {file}
  /\ meta' = [meta EXCEPT ![file] = meta[oldPath], ![oldPath] = NoMetadata]
  /\ InvalidateAndUpdate("rename", file, oldPath, meta', rendered)
  /\ UNCHANGED <<settings, pending>>
  /\ UNCHANGED uiVars

\* vault "delete"
FileDeleted(file) ==
  /\ file \in files
  /\ files' = files \ {file}
  /\ meta' = [meta EXCEPT ![file] = NoMetadata]
  /\ InvalidateAndUpdate("delete", file, << >>, meta', FALSE)
  /\ UNCHANGED <<settings, pending>>
  /\ UNCHANGED uiVars

\* vault "create"
FileCreated(file, m) ==
  /\ file \in VaultPaths \ files
  /\ Cardinality(files) < MaxFiles
  /\ files' = files \cup {file}
  /\ meta' = [meta EXCEPT ![file] = m]
  /\ InvalidateAndUpdate("create", file, << >>, meta', FALSE)
  /\ UNCHANGED <<settings, pending>>
  /\ UNCHANGED uiVars

\* onChange of an association toggle, up to `await saveSettings()`: the
\* settings object, which the resolver shares, is changed in place
AssociationToggles == {"enableFrontmatter", "enableTags", "enableFolders"}

ToggleChanged(name) ==
  /\ Len(pending) < MaxPending
  /\ settings' = [settings EXCEPT ![name] = ~@]
  /\ pending' = Append(pending, "updateSettings")
  /\ lastOp' = Op(name, << >>, << >>, Undefined, 0, NoCall, NoCall)
  /\ UNCHANGED <<files, meta, cache, lastReturned, invalidated>>
  /\ UNCHANGED uiVars

\* onClick of the delete button of tag rule number index
TagMappingDeleted(index) ==
  /\ Len(pending) < MaxPending
  /\ index \in 1..Len(settings.tagMappings)
  /\ settings' = [settings EXCEPT !.tagMappings =
                    SubSeq(@, 1, index - 1) \o SubSeq(@, index + 1, Len(@))]
  /\ pending' = Append(pending, "clearCache")
  /\ lastOp' = Op("deleteTagMapping", << >>, << >>, Undefined, 0,
                  NoCall, NoCall)
  /\ UNCHANGED <<files, meta, cache, lastReturned, invalidated>>
  /\ UNCHANGED uiVars

\* a suspended settings handler resumes after saveSettings():
\* iconResolver.updateSettings(plugin.settings) or iconResolver.clearCache()
\* (updateSettings is handed the object the resolver already holds)
SaveCompleted(i) ==
  /\ i \in 1..Len(pending)
  /\ pending[i] \in {"updateSettings", "clearCache"}
  /\ pending' = SubSeq(pending, 1, i - 1) \o SubSeq(pending, i + 1, Len(pending))
  /\ cache' = clearCache(cache)
  /\ lastOp' = Op(pending[i], << >>, << >>, Undefined, 0, NoCall,
                  IF \E p \in Paths : cache[p] # Undefined
                  THEN SomeEntries ELSE NoCall)
  /\ lastReturned' = [p \in Paths |-> NoCall]
  /\ UNCHANGED <<settings, files, meta, invalidated>>
  /\ UNCHANGED uiVars

Next ==
  \/ \E file \in VaultPaths : GetIconForFile(file)
  \/ \E file \in VaultPaths, m \in VaultMetadata, rendered \in BOOLEAN :
       MetadataChanged(file, m, rendered)
  \/ \E file \in VaultPaths, oldPath \in VaultPaths, rendered \in BOOLEAN :
       FileRenamed(file, oldPath, rendered)
  \/ \E file \in VaultPaths : FileDeleted(file)
  \/ \E file \in VaultPaths, m \in VaultMetadata : FileCreated(file, m)
  \/ \E name \in AssociationToggles : ToggleChanged(name)
  \/ \E index \in 1..MaxTagRules : TagMappingDeleted(index)
  \/ \E i \in 1..MaxPending : SaveCompleted(i)

Spec == Init /\ [][Next]_vars

\* ------------------------------------------------------------------------
\* The renderers: what one pass of each does to the document
\* (src/src/renderers/*.ts, src/src/EditorExtension.ts); a pass threads
\* the resolver cache through its lookups
\* ------------------------------------------------------------------------
RenderState(d, c) == [dom |-> d, cache |-> c]

\* what a pass reads: the settings object, the metadata cache, the vault
World(s, mds, fs, scr) == [s |-> s, mds |-> mds, fs |-> fs, scr |-> scr]

\* querySelectorAll: the elements of a list that are in the document
RECURSIVE Present(_, _)
Present(seq, scr) ==
  IF seq = << >> THEN seq
  ELSE IF Head(seq) \in scr
       THEN <<Head(seq)>> \o Present(Tail(seq), scr)
       ELSE Present(Tail(seq), scr)

RECURSIVE ForEach(_, _, _, _)
ForEach(F(_, _), seq, i, st) ==
  IF i > Len(seq) THEN st ELSE ForEach(F, seq, i + 1, F(st, seq[i]))

\* el.querySelector(".file-icon")?.remove(): the first marker goes
RemoveExistingIcon(markers) ==
  IF markers = << >> THEN markers ELSE Tail(markers)

\* resolve, remove the existing marker, prepend a new one if there is an icon
ReplaceIcon(st, w, e, file) ==
  LET call == getIconForFile(st.cache, w.s, w.mds, file)
      rest == RemoveExistingIcon(st.dom[e])
  IN RenderState([st.dom EXCEPT ![e] = IF Truthy(call.icon)
                                        THEN <<call.icon>> \o rest
                                        ELSE rest],
                 call.cache)

\* return when the element has a marker; else resolve and prepend a marker
\* if there is an icon
AddIconIfAbsent(st, w, e, file) ==
  IF st.dom[e] # << >>
  THEN st
  ELSE LET call == getIconForFile(st.cache, w.s, w.mds, file)
       IN RenderState(IF Truthy(call.icon)
                      THEN [st.dom EXCEPT ![e] = <<call.icon>>]
                      ELSE st.dom,
                      call.cache)

updateNavFileIcon(st, w, navFile) ==
  IF navFile.file \notin w.fs THEN st
  ELSE ReplaceIcon(st, w, navFile, navFile.file)

updateSearchResultIcon(st, w, result) ==
  IF result.file \notin w.fs THEN st
  ELSE ReplaceIcon(st, w, result, result.file)

updateFileExplorerIcons(st, w) ==
  IF ~w.s.renderInFileLists THEN st
  ELSE LET nav == ForEach(LAMBDA t, e : updateNavFileIcon(t, w, e),
                          Present(NavFiles, w.scr), 1, st)
       IN ForEach(LAMBDA t, e : updateSearchResultIcon(t, w, e),
                  Present(SearchResults, w.scr), 1, nav)

\* the first row whose data-path is the file's path
updateSingleFileIcon(st, w, file) ==
  IF ~w.s.renderInFileLists THEN st
  ELSE LET navFiles == Present(NavFiles, w.scr)
           rows == {i \in 1..Len(navFiles) : navFiles[i].file = file}
       IN IF rows = {} THEN st
          ELSE updateNavFileIcon(st, w,
                 navFiles[CHOOSE i \in rows : \A j \in rows : i <= j])

\* the header is the first one whose text is the file's basename or name
updateTabHeaderForLeaf(st, w, leafFile) ==
  LET allHeaders == Present(TabHeaders, w.scr)
      hits == {i \in 1..Len(allHeaders) :
                 \/ HeaderText(allHeaders[i]) = Basename(leafFile)
                 \/ HeaderText(allHeaders[i]) = FileName(leafFile)}
  IN IF hits = {} THEN st
     ELSE ReplaceIcon(st, w,
            allHeaders[CHOOSE i \in hits : \A j \in hits : i <= j],
            leafFile)

\* every inline title is given the icon of the active leaf's file
updateInlineTitleIcon(st, w, title) ==
  ReplaceIcon(st, w, title, ActiveLeafFile)

updateFileViewIcons(st, w) ==
  IF ~w.s.renderInFileView THEN st
  ELSE LET tabs == ForEach(LAMBDA t, f : updateTabHeaderForLeaf(t, w, f),
                           Leaves, 1, st)
       IN ForEach(LAMBDA t, e : updateInlineTitleIcon(t, w, e),
                  Present(InlineTitles, w.scr), 1, tabs)

renderWikilinkIcon(st, w) ==
  IF ~w.s.renderInWikilinks THEN st
  ELSE ForEach(LAMBDA t, e : IF e.file \notin w.fs THEN t
                             ELSE AddIconIfAbsent(t, w, e, e.file),
               Present(WikiLinks, w.scr), 1, st)

updateSuggestionIcons(st, w) ==
  IF ~w.s.renderInWikilinks THEN st
  ELSE ForEach(LAMBDA t, e : IF e.file \notin w.fs THEN t
                             ELSE AddIconIfAbsent(t, w, e, e.file),
               Present(Suggestions, w.scr), 1, st)

updateMetadataLinkIcons(st, w) ==
  IF ~w.s.renderInWikilinks \/ ActiveLeafFile \notin w.fs THEN st
  ELSE ForEach(LAMBDA t, e : IF e.file \notin w.fs THEN t
                             ELSE AddIconIfAbsent(t, w, e, e.file),
               Present(MetadataLinks, w.scr), 1, st)

\* the decoration set is built anew: a widget for every link whose file
\* has an icon
buildDecorations(st, w) ==
  ForEach(LAMBDA t, e :
            IF e.file \notin w.fs THEN RenderState([t.dom EXCEPT ![e] = << >>],
                                                   t.cache)
            ELSE LET call == getIconForFile(t.cache, w.s, w.mds, e.file)
                 IN RenderState([t.dom EXCEPT ![e] =
                                   IF Truthy(call.icon) THEN <<call.icon>>
                                   ELSE << >>],
                                call.cache),
          Present(Decorations, w.scr), 1, st)

\* triggerIconRefresh: every open editor gets the refresh effect and
\* rebuilds its decorations
triggerIconRefresh(st, w) == buildDecorations(st, w)

\* ------------------------------------------------------------------------
\* The plugin on screen: render passes, the metadata-changed handler and
\* the settings handlers acting on one document
\* ------------------------------------------------------------------------
RenderSettings ==
  [DEFAULT_SETTINGS EXCEPT
     !.enableTags = TRUE,
     !.tagMappings = <<TagMapping(Urgent, Alert)>>]

\* the deferred first renders that initializeRendering schedules, one per
\* surface whose toggle is on
InitialRenders(s) ==
  (IF s.renderInFileView THEN {"fileview"} ELSE {})
    \cup (IF s.renderInFileLists THEN {"filelist"} ELSE {})
    \cup (IF s.renderInWikilinks THEN {"metadata"} ELSE {})

\* the handlers the plugin registers with this.registerEvent in onload
PluginSubs ==
  {"plugin:changed", "plugin:rename", "plugin:delete", "plugin:create"}

\* the handlers initializeRendering registers, in registration order before
\* the plugin's own
RendererSubs(s) ==
  (IF s.renderInFileView
   THEN {"renderer:active-leaf-change", "renderer:layout-change"} ELSE {})
    \cup (IF s.renderInFileLists
          THEN {"renderer:rename", "renderer:changed"} ELSE {})
    \cup (IF s.renderInWikilinks THEN {"renderer:metadata-leaf"} ELSE {})

\* the body observers registerSuggestRendering and
\* registerMetadataLinkRendering create at once
RendererObservers(s) ==
  IF s.renderInWikilinks THEN {"suggestions", "metadata"} ELSE {}

TimerNames ==
  {"fileview", "filelist", "metadata", "rerender", "suggestions",
   "properties"}


\* what is on screen: a note in reading view beside the explorer, two
\* notes in split panes, a live-preview editor with its suggester and
\* properties panel, the search pane beside the explorer
Scenes ==
  {{El("wikilink", WorkActiveX), El("nav", WorkActiveX),
    El("tab", WorkActiveX), El("title", WorkActiveX)},
   {El("tab", WorkActiveX), El("tab", WorkshopX),
    El("title", WorkActiveX), El("title", WorkshopX)},
   {El("decoration", WorkActiveX), El("suggestion", WorkActiveX),
    El("metalink", WorkActiveX)},
   {El("search", WorkActiveX), El("nav", WorkActiveX),
    El("nav", WorkshopX)}}

\* every renderer has made its first pass over a document without markers
FirstRender(w) ==
  LET blank == RenderState([e \in Elements |-> << >>],
                           [p \in Paths |-> Undefined])
  IN updateMetadataLinkIcons(
       updateSuggestionIcons(
         buildDecorations(
           renderWikilinkIcon(
             updateFileExplorerIcons(
               updateFileViewIcons(blank, w), w), w), w), w), w)

\* the plugin is loaded and its first renders are done
InitRender ==
  /\ settings = RenderSettings
  /\ files = VaultPaths
  /\ \E m \in VaultMetadata \ {NoMetadata} :
       meta = [p \in Paths |->
                 IF p = WorkActiveX THEN m
                 ELSE IF p = WorkshopX
                      THEN Metadata(<<<<"#">> \o Urgent>>, FALSE,
                                    NoFrontmatter)
                      ELSE NoMetadata]
  /\ screen \in Scenes
  /\ LET st == FirstRender(World(settings, meta, files, screen))
     IN /\ dom = st.dom
        /\ cache = st.cache
  /\ pending = << >>
  /\ lastOp = NoOp
  /\ lastReturned = [p \in Paths |-> NoCall]
  /\ invalidated = [p \in Paths |-> NoCall]
  /\ refreshed = FALSE
  /\ loaded = TRUE
  /\ observers = RendererObservers(settings) \cup {"fileexplorer"}
  /\ timers = {}
  /\ subs = RendererSubs(settings) \cup PluginSubs
  /\ dispatch = << >>
  /\ ModalIdle
  /\ HostIdle

Here == World(settings, meta, files, screen)

Now == RenderState(dom, cache)

\* a pass has run: the document and the cache it leaves
Pass(op, file, st) ==
  /\ dom' = st.dom
  /\ cache' = st.cache
  /\ lastOp' = Op(op, file, << >>, Undefined, 0, NoCall, NoCall)
  /\ refreshed' = FALSE

\* the markdown post processor is run on the rendered note
RenderWikilinks ==
  /\ Pass("renderWikilinkIcon", << >>, renderWikilinkIcon(Now, Here))
  /\ UNCHANGED <<settings, files, meta, pending, lastReturned, invalidated>>
  /\ UNCHANGED <<screen, lifeVars, modalVars, hostVars>>

\* the file explorer's observer reports a change of the rows
FileExplorerMutated ==
  /\ Pass("updateFileExplorerIcons", << >>,
          updateFileExplorerIcons(Now, Here))
  /\ UNCHANGED <<settings, files, meta, pending, lastReturned, invalidated>>
  /\ UNCHANGED <<screen, lifeVars, modalVars, hostVars>>

\* workspace "active-leaf-change" or "layout-change"
LayoutChanged ==
  /\ Pass("updateFileViewIcons", << >>, updateFileViewIcons(Now, Here))
  /\ UNCHANGED <<settings, files, meta, pending, lastReturned, invalidated>>
  /\ UNCHANGED <<screen, lifeVars, modalVars, hostVars>>

\* the body observer reports a change of the suggestion popup
SuggestionsMutated ==
  /\ Pass("updateSuggestionIcons", << >>, updateSuggestionIcons(Now, Here))
  /\ UNCHANGED <<settings, files, meta, pending, lastReturned, invalidated>>
  /\ UNCHANGED <<screen, lifeVars, modalVars, hostVars>>

\* the body observer reports a change of the properties panel
PropertiesMutated ==
  /\ Pass("updateMetadataLinkIcons", << >>,
          updateMetadataLinkIcons(Now, Here))
  /\ UNCHANGED <<settings, files, meta, pending, lastReturned, invalidated>>
  /\ UNCHANGED <<screen, lifeVars, modalVars, hostVars>>

\* ViewPlugin.update with docChanged or viewportChanged
EditorUpdated ==
  /\ Pass("buildDecorations", << >>, buildDecorations(Now, Here))
  /\ UNCHANGED <<settings, files, meta, pending, lastReturned, invalidated>>
  /\ UNCHANGED <<screen, lifeVars, modalVars, hostVars>>

\* the plugin's handler of metadataCache "changed":
\* iconResolver.invalidateFile(file),
\* iconRenderer.updateSingleFileIcon(file), triggerIconRefresh(app)
onChanged(st, w, file) ==
  LET invalid == RenderState(st.dom, invalidateFile(st.cache, file))
      single == updateSingleFileIcon(invalid, w, file)
  IN triggerIconRefresh(single, w)

\* the host has re-indexed the file and the plugin's handler has run
MetadataChangedHandler(file, m) ==
  /\ file \in files
  /\ m.exists
  /\ meta' = [meta EXCEPT ![file] = m]
  /\ LET st == onChanged(Now, World(settings, meta', files, screen), file)
     IN /\ dom' = st.dom
        /\ cache' = st.cache
  /\ lastOp' = Op("changed", file, << >>, Undefined, 0, NoCall, cache[file])
  /\ refreshed' = TRUE
  /\ UNCHANGED <<settings, files, pending, lastReturned, invalidated>>
  /\ UNCHANGED <<screen, lifeVars, modalVars, hostVars>>

\* a setTimeout callback of the renderer runs
TimerFires(t) ==
  /\ t \in timers
  /\ dispatch = << >>
  /\ timers' = timers \ {t}
  /\ observers' = IF t = "filelist" THEN observers \cup {"fileexplorer"}
                  ELSE observers
  /\ Pass("timer:" \o t, << >>,
          CASE t = "fileview" -> updateFileViewIcons(Now, Here)
            [] t \in {"filelist", "rerender"}
                 -> updateFileExplorerIcons(Now, Here)
            [] t \in {"metadata", "properties"}
                 -> updateMetadataLinkIcons(Now, Here)
            [] t = "suggestions" -> updateSuggestionIcons(Now, Here))
  /\ UNCHANGED <<settings, files, meta, pending, lastReturned, invalidated,
                 screen, loaded, subs, dispatch, modalVars, hostVars>>

RenderingToggles ==
  {"renderInWikilinks", "renderInFileView", "renderInFileLists"}

\* onChange of a rendering toggle, up to `await saveSettings()`
RenderingToggleChanged(name) ==
  /\ Len(pending) < MaxPending
  /\ settings' = [settings EXCEPT ![name] = ~@]
  /\ pending' = Append(pending, IF name = "renderInWikilinks"
                                THEN "saved" ELSE "reloadRenderer")
  /\ lastOp' = Op(name, << >>, << >>, Undefined, 0, NoCall, NoCall)
  /\ refreshed' = FALSE
  /\ UNCHANGED <<files, meta, cache, lastReturned, invalidated, dom>>
  /\ UNCHANGED <<screen, lifeVars, modalVars, hostVars>>

\* the handler resumes: nothing more for renderInWikilinks; for the other
\* two reloadRenderer(): onunload(), a new IconRenderer, its
\* initializeRendering()
RenderingToggleSaved(i) ==
  /\ i \in 1..Len(pending)
  /\ pending[i] \in {"saved", "reloadRenderer"}
  /\ pending' = SubSeq(pending, 1, i - 1) \o SubSeq(pending, i + 1, Len(pending))
  /\ IF pending[i] = "reloadRenderer"
     THEN /\ observers' = RendererObservers(settings)
          /\ subs' = subs \cup RendererSubs(settings)
          /\ timers' = timers \cup InitialRenders(settings)
     ELSE UNCHANGED <<observers, subs, timers>>
  /\ lastOp' = Op(pending[i], << >>, << >>, Undefined, 0, NoCall, NoCall)
  /\ refreshed' = FALSE
  /\ UNCHANGED <<settings, files, meta, cache, lastReturned, invalidated>>
  /\ UNCHANGED <<screen, dom, loaded, dispatch, modalVars, hostVars>>

\* onClick of "Add mapping" in the settings tab: a blank rule is pushed,
\* saveSettings() is started and not awaited, the tab is redrawn
AddTagMapping ==
  /\ Len(settings.tagMappings) < MaxTagRules
  /\ settings' = [settings EXCEPT !.tagMappings =
                    Append(@, TagMapping(Empty, Empty))]
  /\ lastOp' = Op("addTagMapping", << >>, << >>, Undefined, 0, NoCall,
                  NoCall)
  /\ refreshed' = FALSE
  /\ UNCHANGED <<files, meta, cache, pending, lastReturned, invalidated>>
  /\ UNCHANGED <<screen, dom, lifeVars, modalVars, hostVars>>

\* file events and mapping edits over a rendered document
NextRender ==
  \/ RenderWikilinks
  \/ FileExplorerMutated
  \/ LayoutChanged
  \/ SuggestionsMutated
  \/ PropertiesMutated
  \/ EditorUpdated
  \/ \E m \in VaultMetadata \ {NoMetadata} :
       MetadataChangedHandler(WorkActiveX, m)
  \/ \E index \in 1..MaxTagRules : TagMappingDeleted(index)
  \/ \E i \in 1..MaxPending : SaveCompleted(i)

SpecRender == InitRender /\ [][NextRender]_vars

\* the settings tab at work over a rendered document
NextToggles ==
  \/ RenderWikilinks
  \/ FileExplorerMutated
  \/ LayoutChanged
  \/ SuggestionsMutated
  \/ PropertiesMutated
  \/ EditorUpdated
  \/ \E t \in {"fileview", "filelist", "metadata"} : TimerFires(t)
  \/ \E name \in RenderingToggles : RenderingToggleChanged(name)
  \/ \E i \in 1..MaxPending : RenderingToggleSaved(i)

SpecToggles == InitRender /\ [][NextToggles]_vars

\* the settings tab at work on the resolver: lookups fill the cache, the
\* handlers change the settings
InitSettings ==
  /\ settings = RenderSettings
  /\ files = {WorkActiveX}
  /\ meta = [p \in Paths |->
               IF p = WorkActiveX
               THEN Metadata(<<<<"#">> \o Urgent>>, FALSE, NoFrontmatter)
               ELSE NoMetadata]
  /\ cache = [p \in Paths |-> Undefined]
  /\ pending = << >>
  /\ lastOp = NoOp
  /\ lastReturned = [p \in Paths |-> NoCall]
  /\ invalidated = [p \in Paths |-> NoCall]
  /\ UiIdle

NextSettings ==
  \/ GetIconForFile(WorkActiveX)
  \/ \E name \in RenderingToggles : RenderingToggleChanged(name)
  \/ \E i \in 1..MaxPending : RenderingToggleSaved(i)
  \/ ToggleChanged("enableTags")
  \/ AddTagMapping
  \/ \E index \in 1..MaxTagRules : TagMappingDeleted(index)
  \/ \E i \in 1..MaxPending : SaveCompleted(i)

SpecSettings == InitSettings /\ [][NextSettings]_vars

\* ------------------------------------------------------------------------
\* The renderer's hold on the host: observers, timers and event handlers
\* from load to unload (src/src/IconRenderer.ts, src/src/main.ts)
\* ------------------------------------------------------------------------
InitLifecycle ==
  /\ settings = RenderSettings
  /\ files = {WorkActiveX}
  /\ \E m \in VaultMetadata \ {NoMetadata} :
       meta = [p \in Paths |-> IF p = WorkActiveX THEN m ELSE NoMetadata]
  /\ screen = {El("nav", WorkActiveX)}
  /\ dom = [e \in Elements |-> << >>]
  /\ cache = [p \in Paths |-> Undefined]
  /\ pending = << >>
  /\ lastOp = NoOp
  /\ lastReturned = [p \in Paths |-> NoCall]
  /\ invalidated = [p \in Paths |-> NoCall]
  /\ refreshed = FALSE
  /\ LifeIdle
  /\ ModalIdle
  /\ HostIdle

\* the host enables the plugin: onload, with initializeRendering
Load ==
  /\ ~loaded
  /\ dispatch = << >>
  /\ loaded' = TRUE
  /\ subs' = subs \cup RendererSubs(settings) \cup PluginSubs
  /\ observers' = observers \cup RendererObservers(settings)
  /\ timers' = timers \cup InitialRenders(settings)
  /\ lastOp' = Op("onload", << >>, << >>, Undefined, 0, NoCall, NoCall)
  /\ refreshed' = FALSE
  /\ UNCHANGED <<settings, files, meta, cache, pending, lastReturned,
                 invalidated, screen, dom, dispatch, modalVars, hostVars>>

\* the host disables the plugin: onunload calls iconRenderer.onunload(),
\* then the host drops what the plugin itself registered
Unload ==
  /\ loaded
  /\ dispatch = << >>
  /\ loaded' = FALSE
  /\ observers' = {}
  /\ subs' = subs \ PluginSubs
  /\ lastOp' = Op("onunload", << >>, << >>, Undefined, 0, NoCall, NoCall)
  /\ refreshed' = FALSE
  /\ UNCHANGED <<settings, files, meta, cache, pending, lastReturned,
                 invalidated, screen, dom, timers, dispatch, modalVars, hostVars>>

\* a connected observer reports mutations
ObserverFires(o) ==
  /\ o \in observers
  /\ dispatch = << >>
  /\ timers' = CASE o = "suggestions" -> timers \cup {"suggestions"}
                 [] o = "metadata" -> timers \cup {"properties"}
                 [] o = "fileexplorer" -> timers
  /\ Pass("observer:" \o o, << >>,
          IF o = "fileexplorer" THEN updateFileExplorerIcons(Now, Here)
          ELSE Now)
  /\ UNCHANGED <<settings, files, meta, pending, lastReturned, invalidated,
                 screen, loaded, observers, subs, dispatch, modalVars, hostVars>>

\* workspace "active-leaf-change" reaches the renderer's handlers
ActiveLeafChanged ==
  /\ dispatch = << >>
  /\ {"renderer:active-leaf-change", "renderer:metadata-leaf"} \cap subs # {}
  /\ timers' = IF "renderer:metadata-leaf" \in subs
               THEN timers \cup {"metadata"} ELSE timers
  /\ Pass("active-leaf-change", << >>,
          IF "renderer:active-leaf-change" \in subs
          THEN updateFileViewIcons(Now, Here) ELSE Now)
  /\ UNCHANGED <<settings, files, meta, pending, lastReturned, invalidated,
                 screen, loaded, observers, subs, dispatch, modalVars, hostVars>>

\* metadataCache "changed" is triggered for the file: its handlers are
\* queued in registration order
ChangedTriggered(file, m) ==
  /\ dispatch = << >>
  /\ file \in files
  /\ m.exists
  /\ {"renderer:changed", "plugin:changed"} \cap subs # {}
  /\ meta' = [meta EXCEPT ![file] = m]
  /\ dispatch' =
       (IF "renderer:changed" \in subs
        THEN <<[handler |-> "renderer:changed", file |-> file]>>
        ELSE << >>)
       \o (IF "plugin:changed" \in subs
           THEN <<[handler |-> "plugin:changed", file |-> file]>>
           ELSE << >>)
  /\ lastOp' = Op("trigger:changed", file, << >>, Undefined, 0, NoCall,
                  NoCall)
  /\ refreshed' = FALSE
  /\ UNCHANGED <<settings, files, cache, pending, lastReturned, invalidated,
                 screen, dom, loaded, observers, timers, subs, modalVars, hostVars>>

\* the next handler of the event runs: the renderer's schedules a pass over
\* the file explorer, the plugin's invalidates and re-renders the file
HandlerRuns ==
  /\ dispatch # << >>
  /\ dispatch' = Tail(dispatch)
  /\ LET h == Head(dispatch)
     IN IF h.handler = "renderer:changed"
        THEN /\ timers' = timers \cup {"rerender"}
             /\ lastOp' = Op("changed:renderer", h.file, << >>, Undefined,
                             0, cache[h.file], NoCall)
             /\ refreshed' = FALSE
             /\ UNCHANGED <<dom, cache>>
        ELSE /\ LET st == onChanged(Now, Here, h.file)
                IN /\ dom' = st.dom
                   /\ cache' = st.cache
             /\ lastOp' = Op("changed", h.file, << >>, Undefined, 0,
                             NoCall, cache[h.file])
             /\ refreshed' = TRUE
             /\ UNCHANGED timers
  /\ UNCHANGED <<settings, files, meta, pending, lastReturned, invalidated,
                 screen, loaded, observers, subs, modalVars, hostVars>>

NextLifecycle ==
  \/ Load
  \/ Unload
  \/ \E t \in TimerNames : TimerFires(t)
  \/ \E o \in {"fileexplorer", "suggestions", "metadata"} : ObserverFires(o)
  \/ ActiveLeafChanged
  \/ \E m \in VaultMetadata \ {NoMetadata} :
       ChangedTriggered(WorkActiveX, m)
  \/ HandlerRuns

SpecLifecycle == InitLifecycle /\ [][NextLifecycle]_vars

\* ------------------------------------------------------------------------
\* Persistence of the settings: saveData writes the settings object to
\* data.json as JSON text, loadData parses the file (src/src/main.ts)
\* ------------------------------------------------------------------------
\* the properties of a settings object, in creation order
SettingsKeys ==
  <<"enableFrontmatter", "frontmatterProperty", "enableTags",
    "enableFolders", "renderInWikilinks", "renderInFileView",
    "renderInFileLists", "tagMappings", "folderMappings">>

\* JSON text, as the values it spells: a literal true/false, a string, an
\* array of objects; an object is the sequence of its members <<key, value>>
JBool(b) == [t |-> "bool", b |-> b, s |-> << >>, a |-> << >>]
JString(s) == [t |-> "string", b |-> FALSE, s |-> s, a |-> << >>]
JArray(a) == [t |-> "array", b |-> FALSE, s |-> << >>, a |-> a]

\* the members of a rule, in the order the rule holds its properties
MappingKeys(mapping) ==
  IF "tag" \in DOMAIN mapping THEN <<"tag", "icon">> ELSE <<"path", "icon">>

StringifyMapping(mapping) ==
  [i \in 1..Len(MappingKeys(mapping)) |->
     <<MappingKeys(mapping)[i], JString(mapping[MappingKeys(mapping)[i]])>>]

\* the properties that hold a boolean, and the one that holds a string; the
\* others hold an array of rules
ToggleKeys ==
  {"enableFrontmatter", "enableTags", "enableFolders", "renderInWikilinks",
   "renderInFileView", "renderInFileLists"}

StringifyValue(key, v) ==
  IF key \in ToggleKeys THEN JBool(v)
  ELSE IF key = "frontmatterProperty" THEN JString(v)
  ELSE JArray([i \in 1..Len(v) |-> StringifyMapping(v[i])])

\* JSON.stringify of an object: one member per own property, in order
JSONStringify(obj) ==
  [i \in 1..Len(SettingsKeys) |->
     <<SettingsKeys[i], StringifyValue(SettingsKeys[i], obj[SettingsKeys[i]])>>]

\* the value of the last member spelled with this key
MemberValue(members, key) ==
  LET at == {i \in 1..Len(members) : members[i][1] = key}
      last == CHOOSE i \in at : \A j \in at : j <= i
  IN members[last][2]

MemberKeys(members) == {members[i][1] : i \in 1..Len(members)}

ParseObject(members) ==
  [key \in MemberKeys(members) |-> MemberValue(members, key).s]

ParseValue(j) ==
  IF j.t = "bool" THEN j.b
  ELSE IF j.t = "string" THEN j.s
  ELSE [i \in 1..Len(j.a) |-> ParseObject(j.a[i])]

\* JSON.parse of the text of an object
JSONParse(text) ==
  [key \in MemberKeys(text) |-> ParseValue(MemberValue(text, key))]

ObjectAssign_TargetWins(target, source) ==
  [key \in DOMAIN target \cup DOMAIN source |->
     IF key \in DOMAIN target THEN target[key] ELSE source[key]]

\* Object.assign({}, target, source): the properties of source override
ObjectAssign(target, source) ==
  [key \in DOMAIN target \cup DOMAIN source |->
     IF key \in DOMAIN source THEN source[key] ELSE target[key]]

\* what loadData resolves to without a data file: null, which Object.assign
\* skips, as it does an object without properties
NoData == << >>

loadData(file) == IF file = << >> THEN NoData ELSE JSONParse(file)

\* the settings the user can have made: every toggle either way, another
\* property name, rule lists empty or populated
PersistFolderLists ==
  SeqsUpTo(FolderRuleInputs, 1)
    \cup {<<FolderMapping(Work \o Slash \o Active, Empty),
            FolderMapping(Work, Briefcase)>>}

PersistInputs ==
  {[enableFrontmatter |-> ef, frontmatterProperty |-> prop,
    enableTags |-> et, enableFolders |-> efo, renderInWikilinks |-> rw,
    renderInFileView |-> rv, renderInFileLists |-> rl,
    tagMappings |-> tm, folderMappings |-> fm] :
     ef \in BOOLEAN, et \in BOOLEAN, efo \in BOOLEAN, rw \in BOOLEAN,
     rv \in BOOLEAN, rl \in BOOLEAN, prop \in {"icon", "emoji"},
     tm \in SeqsUpTo(TagRuleInputs, MaxTagRules),
     fm \in PersistFolderLists}

InitPersist ==
  /\ settings \in PersistInputs
  /\ files = {}
  /\ meta = [p \in Paths |-> NoMetadata]
  /\ cache = [p \in Paths |-> Undefined]
  /\ pending = << >>
  /\ lastOp = NoOp
  /\ lastReturned = [p \in Paths |-> NoCall]
  /\ invalidated = [p \in Paths |-> NoCall]
  /\ UiIdle

\* saveSettings: saveData(this.settings)
saveSettings ==
  /\ disk' = JSONStringify(settings)
  /\ lastOp' = Op("saveSettings", << >>, << >>, Undefined, 0, NoCall, NoCall)
  /\ UNCHANGED <<settings, files, meta, cache, pending, lastReturned,
                 invalidated>>
  /\ UNCHANGED <<domVars, lifeVars, modal, hostVars>>

\* loadSettings when the plugin starts again; lastOp keeps the settings object
\* of the session before, and whether there was a data file
loadSettings ==
  /\ settings' = ObjectAssign(DEFAULT_SETTINGS, loadData(disk))
  /\ lastOp' = Op("loadSettings", << >>, << >>, Undefined,
                  IF disk = << >> THEN 0 ELSE 1, settings, NoCall)
  /\ UNCHANGED <<files, meta, cache, pending, lastReturned, invalidated>>
  /\ UNCHANGED <<domVars, lifeVars, modalVars, hostVars>>

NextPersist ==
  \/ saveSettings
  \/ loadSettings

SpecPersist == InitPersist /\ [][NextPersist]_vars

\* ------------------------------------------------------------------------
\* The tag mapping modal (src/unnamed/part_004). An imported file can put
\* any JSON value where a rule has its tag and its icon, so in this
\* specification the tag and the icon of a rule are JavaScript values.
\*   modal.mappings          TagMappingModal.mappings
\*   modal.filteredMappings  TagMappingModal.filteredMappings
\*   modal.searchInput       the text in the search box
\*   modal.notice            the Notice shown last
\* ------------------------------------------------------------------------
MaxMappings == 3

LowerChar(c) ==
  CASE c = "U" -> "u"
    [] c = "S" -> "s"
    [] OTHER -> c

\* String.prototype.toLowerCase
toLowerCase(s) == [i \in 1..Len(s) |-> LowerChar(s[i])]

\* String.prototype.includes
StringIncludes(s, q) ==
  \E i \in 0..(Len(s) - Len(q)) : SubSeq(s, i + 1, i + Len(q)) = q

ValueMapping(tag, icon) == [tag |-> tag, icon |-> icon]

\* an element of the parsed array: the properties it has, and their values
Item(props, tag, icon) == [props |-> props, tag |-> tag, icon |-> icon]

Parsed(isArray, items) == [isArray |-> isArray, items |-> items]

AsMapping(item) == ValueMapping(item.tag, item.icon)

\* v.toLowerCase() throws a TypeError unless v is a string
LowerThrows(v) == v.k # "string"

\* mappings.find / findIndex with the callback
\* (m) => m.tag.toLowerCase() === tag.toLowerCase(): the index of the first
\* match (0 if none), or that the callback threw before one was found
RECURSIVE FindIndex(_, _, _)
FindIndex(mappings, tag, i) ==
  IF i > Len(mappings) THEN [index |-> 0, threw |-> FALSE]
  ELSE IF LowerThrows(mappings[i].tag) \/ LowerThrows(tag)
  THEN [index |-> 0, threw |-> TRUE]
  ELSE IF toLowerCase(mappings[i].tag.s) = toLowerCase(tag.s)
  THEN [index |-> i, threw |-> FALSE]
  ELSE FindIndex(mappings, tag, i + 1)

\* seq.splice(i, 1), indices counted from 1
splice(seq, i) == SubSeq(seq, 1, i - 1) \o SubSeq(seq, i + 1, Len(seq))

\* "Replace Existing": for each duplicate, splice the first rule with its
\* tag out of this.mappings
RECURSIVE RemoveExisting(_, _, _)
RemoveExisting(mappings, duplicates, k) ==
  IF k > Len(duplicates) THEN [mappings |-> mappings, threw |-> FALSE]
  ELSE LET found == FindIndex(mappings, duplicates[k].tag, 1)
       IN IF found.threw THEN [mappings |-> mappings, threw |-> TRUE]
          ELSE RemoveExisting(IF found.index = 0 THEN mappings
                              ELSE splice(mappings, found.index),
                              duplicates, k + 1)

\* "Skip Duplicates": imported.forEach((imp, idx) => ... imported.splice(idx,
\* 1)); after a splice forEach goes on with the next index. Every tag here is
\* a string, the search for duplicates having called toLowerCase on each.
RECURSIVE SkipDuplicates(_, _, _)
SkipDuplicates(imported, duplicates, idx) ==
  IF idx > Len(imported) THEN imported
  ELSE IF \E k \in 1..Len(duplicates) :
            toLowerCase(duplicates[k].tag.s) = toLowerCase(imported[idx].tag.s)
  THEN SkipDuplicates(splice(imported, idx), duplicates, idx + 1)
  ELSE SkipDuplicates(imported, duplicates, idx + 1)

\* this.searchInput.value.toLowerCase().trim()
SearchQuery(input) == Trim(toLowerCase(input))

\* the filter callback of handleSearch applied to one rule
FilterThrows(m, query) ==
  \/ LowerThrows(m.tag)
  \/ ~StringIncludes(toLowerCase(m.tag.s), query) /\ LowerThrows(m.icon)

FilterKeeps(m, query) ==
  \/ StringIncludes(toLowerCase(m.tag.s), query)
  \/ StringIncludes(toLowerCase(m.icon.s), query)

handleSearchThrows(mappings, input) ==
  /\ SearchQuery(input) # << >>
  /\ \E i \in 1..Len(mappings) : FilterThrows(mappings[i], SearchQuery(input))

\* this.filteredMappings after a handleSearch that did not throw
handleSearch(mappings, input) ==
  IF SearchQuery(input) = << >> THEN mappings
  ELSE LET Keeps(m) == FilterKeeps(m, SearchQuery(input))
       IN SelectSeq(mappings, Keeps)

\* how a run of the change handler of importMappings ends: this.mappings,
\* plugin.settings.tagMappings, whether autoSave ran, and the notice
Ending(mappings, tagMappings, saved, notice) ==
  [mappings |-> mappings, tagMappings |-> tagMappings, saved |-> saved,
   notice |-> notice]

Validated(imported) ==
  /\ imported.isArray
  /\ \A i \in 1..Len(imported.items) :
       {"tag", "icon"} \subseteq imported.items[i].props

\* the change handler of the file input of importMappings, from the parsed
\* text to the notice, with the answers the user gives to the two prompts
importMappings(m, tagMappings, imported, action, handleDuplicates) ==
  LET items == [i \in 1..Len(imported.items) |-> AsMapping(imported.items[i])]
      IsDuplicate(imp) == FindIndex(m.mappings, imp.tag, 1).index # 0
      searchThrows ==
        action = "merge"
          /\ \E i \in 1..Len(items) : FindIndex(m.mappings, items[i].tag, 1).threw
      duplicates == IF action = "merge" THEN SelectSeq(items, IsDuplicate)
                    ELSE << >>
      removed == IF duplicates # << >> /\ handleDuplicates = "replace"
                 THEN RemoveExisting(m.mappings, duplicates, 1)
                 ELSE [mappings |-> m.mappings, threw |-> FALSE]
      kept == IF duplicates # << >> /\ handleDuplicates = "skip"
              THEN SkipDuplicates(items, duplicates, 1)
              ELSE items
      applied == IF action = "replace" THEN kept
                 ELSE removed.mappings \o kept
  IN IF ~Validated(imported)
     THEN Ending(m.mappings, tagMappings, FALSE, "failed")
     ELSE IF action = "cancel"
     THEN Ending(m.mappings, tagMappings, FALSE, m.notice)
     ELSE IF searchThrows
     THEN Ending(m.mappings, tagMappings, FALSE, "failed")
     ELSE IF removed.threw
     THEN Ending(removed.mappings, tagMappings, FALSE, "failed")
     ELSE IF handleSearchThrows(applied, m.searchInput)
     THEN Ending(applied, applied, TRUE, "failed")
     ELSE Ending(applied, applied, TRUE, "success")

\* files the user can pick: not an array; an element without icon; a new
\* rule; a rule whose tag is in the list but for the case of a letter; a rule
\* whose tag is a number; two rules with one tag
ImportFiles ==
  {Parsed(FALSE, << >>),
   Parsed(TRUE, <<Item({"tag"}, Str(Urgent), Undefined)>>),
   Parsed(TRUE, <<Item({"tag", "icon"}, Str(Project), Str(FolderIcon))>>),
   Parsed(TRUE, <<Item({"tag", "icon"}, Str(<<"U">> \o Tail(Urgent)), Str(Star))>>),
   Parsed(TRUE, <<Item({"tag", "icon"}, Num(<<"5">>), Str(Star))>>),
   Parsed(TRUE, <<Item({"tag", "icon"}, Str(Urgent), Str(Star)),
                  Item({"tag", "icon"}, Str(Urgent), Str(Zap))>>)}

SearchInputs == {<< >>, <<"U", "r">>}

ModalRuleInputs ==
  {ValueMapping(Str(Urgent), Str(Alert)),
   ValueMapping(Str(Project), Str(FolderIcon))}

\* the modal has been opened on the rules of the settings
InitImport ==
  /\ \E tm \in SeqsUpTo(ModalRuleInputs, MaxTagRules) :
       /\ settings = [RenderSettings EXCEPT !.tagMappings = tm]
       /\ modal = [mappings |-> tm, filteredMappings |-> tm,
                   searchInput |-> << >>, notice |-> ""]
  /\ files = {}
  /\ meta = [p \in Paths |-> NoMetadata]
  /\ cache = [p \in Paths |-> Undefined]
  /\ pending = << >>
  /\ lastOp = NoOp
  /\ lastReturned = [p \in Paths |-> NoCall]
  /\ invalidated = [p \in Paths |-> NoCall]
  /\ DomIdle /\ LifeIdle /\ HostIdle
  /\ disk = << >>

\* the input event of the search box: handleSearch
SearchInput(input) ==
  /\ modal' = [modal EXCEPT
                 !.searchInput = input,
                 !.filteredMappings =
                    IF handleSearchThrows(modal.mappings, input) THEN @
                    ELSE handleSearch(modal.mappings, input)]
  /\ lastOp' = Op("handleSearch", << >>, << >>, Undefined, 0, NoCall, NoCall)
  /\ UNCHANGED <<settings, files, meta, cache, pending, lastReturned,
                 invalidated>>
  /\ UNCHANGED <<domVars, lifeVars, disk, hostVars>>

\* the delete button of a row that is shown: deleteMapping with autoSave
deleteMapping(index) ==
  /\ index \in 1..Len(modal.mappings)
  /\ \E j \in 1..Len(modal.filteredMappings) :
       modal.filteredMappings[j] = modal.mappings[index]
  /\ LET mappings == splice(modal.mappings, index)
     IN /\ modal' = [modal EXCEPT
                       !.mappings = mappings,
                       !.filteredMappings =
                          IF handleSearchThrows(mappings, modal.searchInput)
                          THEN @
                          ELSE handleSearch(mappings, modal.searchInput)]
        /\ settings' = [settings EXCEPT !.tagMappings = mappings]
  /\ cache' = clearCache(cache)
  /\ lastOp' = Op("deleteMapping", << >>, << >>, Undefined, 0, NoCall, NoCall)
  /\ UNCHANGED <<files, meta, pending, lastReturned, invalidated>>
  /\ UNCHANGED <<domVars, lifeVars, disk, hostVars>>

\* the user picks a file in the dialog of importMappings and answers the
\* prompts; lastOp keeps the notice of this run ("" when cancelled), the
\* two lists as they were when the run started, and the file and the answers
FileChosen(imported, action, handleDuplicates) ==
  /\ Len(modal.mappings) + Len(imported.items) <= MaxMappings
  /\ LET end == importMappings(modal, settings.tagMappings, imported, action,
                               handleDuplicates)
     IN /\ modal' = [modal EXCEPT
                       !.mappings = end.mappings,
                       !.filteredMappings =
                          IF end.notice = "success"
                          THEN handleSearch(end.mappings, modal.searchInput)
                          ELSE @,
                       !.notice = IF end.notice = "" THEN @ ELSE end.notice]
        /\ settings' = [settings EXCEPT !.tagMappings = end.tagMappings]
        /\ cache' = IF end.saved THEN clearCache(cache) ELSE cache
        /\ lastOp' = Op("importMappings", << >>, << >>, end.notice, 0,
                        [mappings |-> modal.mappings,
                         tagMappings |-> settings.tagMappings],
                        [imported |-> imported, action |-> action,
                         handleDuplicates |-> handleDuplicates])
  /\ UNCHANGED <<files, meta, pending, lastReturned, invalidated>>
  /\ UNCHANGED <<domVars, lifeVars, disk, hostVars>>

\* getIconFromTags over rules whose tag and icon are JavaScript values, for
\* a file with the tags allTags (normalised, not empty): whether the loop
\* raises a TypeError: mapping.tag.trim() is evaluated for every rule the
\* loop reaches, mapping.icon.trim() when the tag is among the file's and
\* the icon is truthy
RECURSIVE getIconFromTagsThrows(_, _, _)
getIconFromTagsThrows(tagMappings, allTags, i) ==
  IF i > Len(tagMappings) THEN FALSE
  ELSE IF tagMappings[i].tag.k # "string" THEN TRUE
  ELSE IF NormalizeTag(tagMappings[i].tag.s) \in allTags
            /\ Truthy(tagMappings[i].icon)
  THEN tagMappings[i].icon.k # "string"
         \/ (Trim(tagMappings[i].icon.s) = << >>
              /\ getIconFromTagsThrows(tagMappings, allTags, i + 1))
  ELSE getIconFromTagsThrows(tagMappings, allTags, i + 1)

NextImport ==
  \/ \E input \in SearchInputs : SearchInput(input)
  \/ \E index \in 1..MaxMappings : deleteMapping(index)
  \/ \E imported \in ImportFiles, action \in {"merge", "replace", "cancel"},
        handleDuplicates \in {"skip", "replace"} :
       FileChosen(imported, action, handleDuplicates)

SpecImport == InitImport /\ [][NextImport]_vars

\* ------------------------------------------------------------------------
\* Resolution of one file whose metadata has the shapes YAML allows: values
\* that are not strings where the resolver reads a string; the folder rules
\* include two spellings of one folder
\* ------------------------------------------------------------------------
ShapeInputs ==
  {NoMetadata,
   Metadata(<<<<"#">> \o Urgent>>, FALSE, NoFrontmatter),
   Metadata(<< >>, TRUE,
            Frontmatter(Num(<<"7">>),
                        [k |-> "boolean", s |-> <<"t", "r", "u", "e">>,
                         a |-> << >>],
                        Num(<<"7">>))),
   Metadata(<< >>, TRUE,
            Frontmatter(Arr(<<Str(Star)>>), Str(Blank),
                        Arr(<<Num(<<"7">>), Str(<<"#">> \o Urgent)>>))),
   Metadata(<<<<"#">> \o Urgent>>, TRUE,
            Frontmatter(Undefined, Str(Empty), Arr(<<Num(<<"7">>)>>))),
   Metadata(<< >>, TRUE,
            Frontmatter(Str(Star), Str(Star \o <<" ">>), Str(<<" ", "#", "7">>)))}

InitShapes ==
  /\ \E ef \in BOOLEAN, et \in BOOLEAN, efo \in BOOLEAN,
        prop \in {"", "emoji"},
        tm \in {<< >>, <<TagMapping(<<"7">>, Zap)>>,
                <<TagMapping(Urgent, Alert)>>},
        fm \in {<< >>, <<FolderMapping(Work, Briefcase)>>,
                <<FolderMapping(Work, Briefcase),
                  FolderMapping(Slash \o Work \o Slash, Zap)>>,
                <<FolderMapping(Slash \o Work \o Slash, Zap),
                  FolderMapping(Work, Briefcase)>>} :
       settings = [DEFAULT_SETTINGS EXCEPT
                     !.enableFrontmatter = ef, !.enableTags = et,
                     !.enableFolders = efo, !.frontmatterProperty = prop,
                     !.tagMappings = tm, !.folderMappings = fm]
  /\ files = {WorkActiveX}
  /\ \E m \in ShapeInputs :
       meta = [q \in Paths |-> IF q = WorkActiveX THEN m ELSE NoMetadata]
  /\ cache = [p \in Paths |-> Undefined]
  /\ pending = << >>
  /\ lastOp = NoOp
  /\ lastReturned = [p \in Paths |-> NoCall]
  /\ invalidated = [p \in Paths |-> NoCall]
  /\ UiIdle

SpecShapes == InitShapes /\ [][NextResolve]_vars

\* ------------------------------------------------------------------------
\* The live-preview editor extension: one view plugin per editor view, fed
\* by the transactions of the view
\* ------------------------------------------------------------------------
MaxRefresh == 2

\* the open markdown editors (leaf.view.editor.cm)
EditorViews == 1..2

\* the internal links of a note, in the order of the text
Documents == {<< >>, <<WorkshopX>>, <<WorkOtherX, WorkActiveX>>}

\* view.visibleRanges: the first link only, or the whole text
Viewports == {"top", "all"}

VisibleLinks(doc, viewport) ==
  IF viewport = "top" /\ Len(doc) > 1 THEN <<Head(doc)>> ELSE doc

Widget(pos, icon) == [pos |-> pos, icon |-> icon]

EditorView(livePreview, hasFile, doc, viewport, field, previous, decos) ==
  [livePreview |-> livePreview, hasFile |-> hasFile, doc |-> doc,
   viewport |-> viewport, field |-> field,
   previousRefreshState |-> previous, decorations |-> decos]

\* StateField iconRefreshState: one more for a transaction that carries
\* refreshIconsEffect
iconRefreshState_NoIncrement(value, effects) == value

iconRefreshState(value, effects) ==
  IF "refreshIconsEffect" \in effects THEN value + 1 ELSE value

\* the widgets of the links in view whose file exists and resolves to an
\* icon; none out of live preview or without a file
AddWidget(built, pos, call) ==
  [decorations |-> IF Truthy(call.icon)
                   THEN Append(built.decorations, Widget(pos, call.icon))
                   ELSE built.decorations,
   cache |-> call.cache]

RECURSIVE WidgetsFrom(_, _, _, _, _, _)
WidgetsFrom(links, i, built, s, mds, fs) ==
  IF i > Len(links) THEN built
  ELSE IF links[i] \notin fs
       THEN WidgetsFrom(links, i + 1, built, s, mds, fs)
       ELSE WidgetsFrom(links, i + 1,
                        AddWidget(built, i,
                                  getIconForFile(built.cache, s, mds,
                                                 links[i])),
                        s, mds, fs)

buildViewDecorations(view, c, s, mds, fs) ==
  IF ~view.livePreview THEN [decorations |-> << >>, cache |-> c]
  ELSE IF ~view.hasFile THEN [decorations |-> << >>, cache |-> c]
  ELSE WidgetsFrom(VisibleLinks(view.doc, view.viewport), 1,
                   [decorations |-> << >>, cache |-> c], s, mds, fs)

\* ViewPlugin.update on the view as the transaction left it: the view
\* after it, the cache after it, and whether it rebuilt
Rebuilt(seen, built) ==
  [view |-> [seen EXCEPT !.decorations = built.decorations],
   cache |-> built.cache, builds |-> 1]

update(view, docChanged, viewportChanged, c, s, mds, fs) ==
  LET newRefreshState == view.field
      hasMetadataChange == newRefreshState # view.previousRefreshState
      seen == [view EXCEPT !.previousRefreshState = newRefreshState]
  IN IF docChanged \/ viewportChanged \/ hasMetadataChange
     THEN Rebuilt(seen, buildViewDecorations(seen, c, s, mds, fs))
     ELSE [view |-> seen, cache |-> c, builds |-> 0]

\* what the last step did to a view
NoUpdate(view) ==
  [calls |-> 0, docChanged |-> FALSE, viewportChanged |-> FALSE,
   observed |-> view.previousRefreshState, fieldBefore |-> view.field,
   before |-> view.decorations, builds |-> 0]

Updated(view, docChanged, viewportChanged, builds) ==
  [calls |-> 1, docChanged |-> docChanged,
   viewportChanged |-> viewportChanged,
   observed |-> view.previousRefreshState, fieldBefore |-> view.field,
   before |-> view.decorations, builds |-> builds]

EditorSettings ==
  [DEFAULT_SETTINGS EXCEPT
     !.enableTags = TRUE,
     !.tagMappings = <<TagMapping(Urgent, Alert)>>]

\* the plugin is loaded and the view plugin of each editor is constructed
InitEditor ==
  /\ settings = EditorSettings
  /\ files = VaultPaths
  /\ meta = [p \in Paths |->
               IF p = WorkActiveX
               THEN Metadata(<< >>, TRUE,
                             Frontmatter(Str(Star), Undefined, Undefined))
               ELSE IF p = WorkshopX
                    THEN Metadata(<<<<"#">> \o Urgent>>, FALSE, NoFrontmatter)
                    ELSE NoMetadata]
  /\ cache = [p \in Paths |-> Undefined]
  /\ \E lp \in [EditorViews -> BOOLEAN], hf \in [EditorViews -> BOOLEAN] :
       editors =
         [v \in EditorViews |->
            LET fresh == EditorView(lp[v], hf[v], <<WorkshopX>>, "all", 0, 0,
                                    << >>)
            IN [fresh EXCEPT !.decorations =
                  buildViewDecorations(fresh, cache, settings, meta,
                                       files).decorations]]
  /\ lastUpdate = [v \in EditorViews |-> NoUpdate(editors[v])]
  /\ pending = << >>
  /\ lastOp = NoOp
  /\ lastReturned = [p \in Paths |-> NoCall]
  /\ invalidated = [p \in Paths |-> NoCall]
  /\ DomIdle
  /\ LifeIdle
  /\ ModalIdle
  /\ SchedIdle

\* one transaction of the view v: the view's state after it, then the
\* plugin's update
Applied(op, v, u, docChanged, viewportChanged) ==
  /\ editors' = [editors EXCEPT ![v] = u.view]
  /\ cache' = u.cache
  /\ lastUpdate' =
       [w \in EditorViews |->
          IF w = v
          THEN Updated(editors[v], docChanged, viewportChanged, u.builds)
          ELSE NoUpdate(editors[w])]
  /\ lastOp' = [NoOp EXCEPT !.op = op]
  /\ UNCHANGED <<settings, files, meta, pending, lastReturned,
                 invalidated, domVars, lifeVars, modalVars, schedVars>>

Transaction(op, v, after, docChanged, viewportChanged) ==
  Applied(op, v,
          update(after, docChanged, viewportChanged, cache, settings, meta,
                 files),
          docChanged, viewportChanged)

\* the user types: the links of the note change
DocumentEdited(v) ==
  \E doc \in Documents \ {editors[v].doc} :
    Transaction("edit", v, [editors[v] EXCEPT !.doc = doc], TRUE, FALSE)

\* the user scrolls: the visible ranges change
ViewportMoved(v) ==
  \E viewport \in Viewports \ {editors[v].viewport} :
    Transaction("scroll", v, [editors[v] EXCEPT !.viewport = viewport],
                FALSE, TRUE)

\* the user moves the cursor: neither the text nor the viewport changes
SelectionMoved(v) ==
  Transaction("select", v, editors[v], FALSE, FALSE)

\* the user switches between live preview and source mode: the host sets
\* editorLivePreviewField; the text stays and the viewport may stay
ModeSwitched(v) ==
  \E viewport \in Viewports :
    Transaction("mode", v,
                [editors[v] EXCEPT !.livePreview = ~editors[v].livePreview,
                                   !.viewport = viewport],
                FALSE, viewport # editors[v].viewport)

\* triggerIconRefresh: the refresh effect goes to the editors one after the
\* other, and each one's plugin is updated
Collected(done, v, u) ==
  [editors |-> [done.editors EXCEPT ![v] = u.view],
   cache |-> u.cache,
   builds |-> Append(done.builds, u.builds)]

RefreshOne(done, v, w) ==
  Collected(done, v,
            update([done.editors[v] EXCEPT
                      !.field = iconRefreshState(done.editors[v].field,
                                                 {"refreshIconsEffect"})],
                   FALSE, FALSE, done.cache, w.s, w.mds, w.fs))

\* the editors, the cache and each editor's number of rebuilds after a
\* refresh of the editors as they are
Refreshed ==
  ForEach(LAMBDA done, v : RefreshOne(done, v, Here),
          [v \in EditorViews |-> v], 1,
          [editors |-> editors, cache |-> cache, builds |-> << >>])

RefreshApplied(r) ==
  /\ editors' = r.editors
  /\ cache' = r.cache
  /\ lastUpdate' = [v \in EditorViews |->
                      Updated(editors[v], FALSE, FALSE, r.builds[v])]
  /\ lastOp' = [NoOp EXCEPT !.op = "triggerIconRefresh"]
  /\ UNCHANGED <<settings, files, meta, pending, lastReturned, invalidated,
                 domVars, lifeVars, modalVars, schedVars>>

IconRefreshTriggered ==
  /\ \A v \in EditorViews : editors[v].field < MaxRefresh
  /\ RefreshApplied(Refreshed)

NextEditor ==
  \/ \E v \in EditorViews : DocumentEdited(v)
  \/ \E v \in EditorViews : ViewportMoved(v)
  \/ \E v \in EditorViews : SelectionMoved(v)
  \/ \E v \in EditorViews : ModeSwitched(v)
  \/ IconRefreshTriggered

SpecEditor == InitEditor /\ [][NextEditor]_vars

\* ------------------------------------------------------------------------
\* Timers: the host's setTimeout table and ObserverManager.debounce.
\* Times are in milliseconds; a timer runs when its time is up, before the
\* clock moves on
\* ------------------------------------------------------------------------
DebounceDelay == 100

DebounceKeys == {"fileexplorer", "suggestions", "metadata"}

\* the functions handed to debounce
Callbacks == {"updateFileExplorerIcons", "updateSuggestionIcons"}

Timer(id, left, key, fn) == [id |-> id, left |-> left, key |-> key, fn |-> fn]

\* setTimeout: a timer under an id no live timer has
setTimeout(tms, left, key, fn) ==
  LET id == CHOOSE i \in 1..(Cardinality(tms) + 1) :
              \A t \in tms : t.id # i
  IN [timers |-> tms \cup {Timer(id, left, key, fn)}, id |-> id]

clearTimeout(tms, id) == {t \in tms : t.id # id}

\* debounceTimers.get(key) is 0 when the map has no entry for the key
NoTimers == [key \in DebounceKeys |-> 0]

debounce_NoClear(tms, map, key, fn, delay) ==
  LET set == setTimeout(tms, delay, key, fn)
  IN [timers |-> set.timers, map |-> [map EXCEPT ![key] = set.id]]

debounce_ClearAll(tms, map, key, fn, delay) ==
  LET set == setTimeout({}, delay, key, fn)
  IN [timers |-> set.timers, map |-> [map EXCEPT ![key] = set.id]]

debounce(tms, map, key, fn, delay) ==
  LET existingTimer == map[key]
      cleared == IF existingTimer # 0 THEN clearTimeout(tms, existingTimer)
                 ELSE tms
      set == setTimeout(cleared, delay, key, fn)
  IN [timers |-> set.timers, map |-> [map EXCEPT ![key] = set.id]]

\* ObserverManager.cleanup, the timers' part
clearDebounceTimers(tms, map) ==
  {t \in tms : \A key \in DebounceKeys : map[key] # t.id}

\* of the last debounce call of a key: the function, the time since, the
\* invocations since and the function and time of the last of them
NeverCalled ==
  [calls |-> 0, fn |-> "", age |-> 0, runs |-> 0, ranFn |-> "", ranAge |-> 0]

\* calls counts the calls of the burst so far, as one or as several
Called(b, fn) ==
  [calls |-> IF b.calls > 0 /\ b.runs = 0 THEN 2 ELSE 1,
   fn |-> fn, age |-> 0, runs |-> 0, ranFn |-> "", ranAge |-> 0]

Ran(b, fn) ==
  [b EXCEPT !.runs = IF b.runs < 2 THEN b.runs + 1 ELSE 2,
            !.ranFn = fn, !.ranAge = b.age]

Aged(b, d) ==
  [b EXCEPT !.age = IF b.age + d < DebounceDelay THEN b.age + d
                    ELSE DebounceDelay]

\* the time that may pass: half a debounce window, or up to the next timer
Steps(tms) ==
  {d \in {DebounceDelay \div 2} \cup {t.left : t \in tms} :
     /\ d > 0
     /\ \A t \in tms : d <= t.left}

Elapsed(tms, d) == {[t EXCEPT !.left = t.left - d] : t \in tms}

ResolverIdle ==
  /\ settings = DEFAULT_SETTINGS
  /\ files = {}
  /\ meta = [p \in Paths |-> NoMetadata]
  /\ cache = [p \in Paths |-> Undefined]
  /\ pending = << >>
  /\ lastOp = NoOp
  /\ lastReturned = [p \in Paths |-> NoCall]
  /\ invalidated = [p \in Paths |-> NoCall]

\* a fresh ObserverManager
InitDebounce ==
  /\ ResolverIdle
  /\ DomIdle
  /\ LifeIdle
  /\ ModalIdle
  /\ EditorsIdle
  /\ hostTimers = {}
  /\ debounceTimers = NoTimers
  /\ records = {}
  /\ container = FALSE
  /\ installed = 0
  /\ burst = [key \in DebounceKeys |-> NeverCalled]

DebounceCalled(key, fn) ==
  /\ LET r == debounce(hostTimers, debounceTimers, key, fn, DebounceDelay)
     IN /\ hostTimers' = r.timers
        /\ debounceTimers' = r.map
  /\ burst' = [burst EXCEPT ![key] = Called(burst[key], fn)]
  /\ lastOp' = [NoOp EXCEPT !.op = "debounce"]
  /\ UNCHANGED <<settings, files, meta, cache, pending, lastReturned,
                 invalidated, domVars, lifeVars, modalVars, editorVars,
                 records, container, installed>>

\* the timer's callback: fn(), then debounceTimers.delete(key)
DebounceTimerFired(t) ==
  /\ t \in hostTimers
  /\ t.left = 0
  /\ hostTimers' = hostTimers \ {t}
  /\ debounceTimers' = [debounceTimers EXCEPT ![t.key] = 0]
  /\ burst' = [burst EXCEPT ![t.key] = Ran(burst[t.key], t.fn)]
  /\ lastOp' = [NoOp EXCEPT !.op = "run"]
  /\ UNCHANGED <<settings, files, meta, cache, pending, lastReturned,
                 invalidated, domVars, lifeVars, modalVars, editorVars,
                 records, container, installed>>

\* ObserverManager.cleanup
CleanedUp ==
  /\ hostTimers' = clearDebounceTimers(hostTimers, debounceTimers)
  /\ debounceTimers' = NoTimers
  /\ burst' = [key \in DebounceKeys |-> NeverCalled]
  /\ lastOp' = [NoOp EXCEPT !.op = "cleanup"]
  /\ UNCHANGED <<settings, files, meta, cache, pending, lastReturned,
                 invalidated, domVars, lifeVars, modalVars, editorVars,
                 records, container, installed>>

TimePassed ==
  /\ \E d \in Steps(hostTimers) :
       /\ hostTimers' = Elapsed(hostTimers, d)
       /\ burst' = [key \in DOMAIN burst |-> Aged(burst[key], d)]
  /\ hostTimers # {}
  /\ lastOp' = [NoOp EXCEPT !.op = "time"]
  /\ UNCHANGED <<settings, files, meta, cache, pending, lastReturned,
                 invalidated, domVars, lifeVars, modalVars, editorVars,
                 debounceTimers, records, container, installed>>

NextDebounce ==
  \/ \E key \in DebounceKeys, fn \in Callbacks : DebounceCalled(key, fn)
  \/ \E t \in hostTimers : DebounceTimerFired(t)
  \/ CleanedUp
  \/ TimePassed

SpecDebounce == InitDebounce /\ [][NextDebounce]_vars

\* ------------------------------------------------------------------------
\* The DOM-watching sub-renderers (file list, suggestions, properties) with
\* their observers, debounce timers and deferred calls. A mutation
\* observer's callback runs before the next timer or host event
\* ------------------------------------------------------------------------
RetryDelay == 500

InitialRenderDelay == 500

MetadataRenderDelay == 200

\* the timers a renderer sets with a bare setTimeout carry no key
NoKey == ""

WatchSettings ==
  [DEFAULT_SETTINGS EXCEPT
     !.enableTags = TRUE,
     !.tagMappings = <<TagMapping(Urgent, Alert)>>]

\* the rows of the file explorer live in .nav-files-container
NavRows == Range(NavFiles)

\* setupFileExplorerObserver: without the container, a retry; with it, an
\* observer on it
setupFileExplorerObserver_NoRetry(tms, present, count) ==
  IF ~present
  THEN [timers |-> tms, installed |-> count, op |-> "retry"]
  ELSE [timers |-> tms, installed |-> count + 1, op |-> "installed"]

setupFileExplorerObserver(tms, present, count) ==
  IF ~present
  THEN [timers |-> setTimeout(tms, RetryDelay, NoKey,
                              "setupFileExplorerObserver").timers,
        installed |-> count, op |-> "retry"]
  ELSE [timers |-> tms, installed |-> count + 1, op |-> "installed"]

\* FileListRenderer.initialize, SuggestionRenderer.initialize and
\* MetadataRenderer.initialize
initializeFileList(tms, s) ==
  IF ~s.renderInFileLists THEN tms
  ELSE setTimeout(tms, InitialRenderDelay, NoKey, "initialize").timers

initializeSuggestions(obs, s) ==
  IF ~s.renderInWikilinks THEN obs ELSE obs \cup {"suggestions"}

initializeMetadata(tms, s) ==
  IF ~s.renderInWikilinks THEN tms
  ELSE setTimeout(tms, MetadataRenderDelay, NoKey,
                  "updateMetadataLinkIcons").timers

\* a pass of the file list changes the children of a row when it removes
\* the row's marker or prepends one
NavMutated(st, w) ==
  /\ w.s.renderInFileLists
  /\ \E e \in NavRows :
       /\ e \in w.scr
       /\ e.file \in w.fs
       /\ \/ st.dom[e] # << >>
          \/ Truthy(getIconForFile(st.cache, w.s, w.mds, e.file).icon)

\* a pass that only adds markers changes the children of the elements
\* whose markers differ after it
Mutated(surface, before, after) ==
  \E e \in Elements : e.surface = surface /\ before.dom[e] # after.dom[e]

\* the observers whose callback goes on to debounce for a change of the
\* children of an element of the surface: the one on the container for a
\* row, the one on the body that looks for suggestions or for properties
Watching(surface, obs, count) ==
  CASE surface = "nav" -> IF count > 0 THEN {"fileexplorer"} ELSE {}
    [] surface = "suggestion" -> obs \cap {"suggestions"}
    [] surface = "metalink" -> obs \cap {"metadata"}
    [] OTHER -> {}

\* what the callback of an observer hands to debounce
CallbackOf(o) ==
  CASE o = "fileexplorer" -> "updateFileExplorerIcons"
    [] o = "suggestions" -> "updateSuggestionIcons"
    [] o = "metadata" -> "updateMetadataLinkIcons"

\* the renderers are constructed and initialized; nothing has run yet
InitWatch ==
  /\ \E fl \in BOOLEAN, wl \in BOOLEAN :
       settings = [WatchSettings EXCEPT !.renderInFileLists = fl,
                                        !.renderInWikilinks = wl]
  /\ files = VaultPaths
  /\ \E m \in {Metadata(<< >>, FALSE, NoFrontmatter),
               Metadata(<<<<"#">> \o Urgent>>, FALSE, NoFrontmatter)} :
       meta = [p \in Paths |->
                 IF p = WorkActiveX THEN m
                 ELSE IF p = WorkshopX
                      THEN Metadata(<< >>, FALSE, NoFrontmatter)
                      ELSE NoMetadata]
  /\ cache = [p \in Paths |-> Undefined]
  /\ pending = << >>
  /\ lastOp = NoOp
  /\ lastReturned = [p \in Paths |-> NoCall]
  /\ invalidated = [p \in Paths |-> NoCall]
  /\ container \in BOOLEAN
  /\ screen = IF container THEN {El("nav", WorkshopX)} ELSE {}
  /\ dom = [e \in Elements |-> << >>]
  /\ refreshed = FALSE
  /\ loaded = TRUE
  /\ observers = initializeSuggestions({}, settings)
                   \cup (IF settings.renderInWikilinks THEN {"metadata"}
                         ELSE {})
  /\ timers = {}
  /\ subs = {}
  /\ dispatch = << >>
  /\ ModalIdle
  /\ EditorsIdle
  /\ hostTimers = initializeMetadata(initializeFileList({}, settings),
                                     settings)
  /\ debounceTimers = NoTimers
  /\ records = {}
  /\ installed = 0
  /\ burst = << >>

\* a timer's callback
TimerRuns(t) ==
  /\ t \in hostTimers
  /\ t.left = 0
  /\ records = {}
  /\ LET rest == hostTimers \ {t}
         pass == CASE t.fn \in {"initialize", "updateFileExplorerIcons"}
                        -> updateFileExplorerIcons(Now, Here)
                   [] t.fn = "updateSuggestionIcons"
                        -> updateSuggestionIcons(Now, Here)
                   [] t.fn = "updateMetadataLinkIcons"
                        -> updateMetadataLinkIcons(Now, Here)
                   [] OTHER -> Now
         setup == IF t.fn \in {"initialize", "setupFileExplorerObserver"}
                  THEN setupFileExplorerObserver(rest, container, installed)
                  ELSE [timers |-> rest, installed |-> installed,
                        op |-> "pass"]
         surface == CASE t.fn = "updateSuggestionIcons" -> "suggestion"
                      [] t.fn = "updateMetadataLinkIcons" -> "metalink"
                      [] OTHER -> "nav"
         mutated == IF surface = "nav"
                    THEN t.fn # "setupFileExplorerObserver"
                           /\ NavMutated(Now, Here)
                    ELSE Mutated(surface, Now, pass)
     IN /\ dom' = pass.dom
        /\ cache' = pass.cache
        /\ hostTimers' = setup.timers
        /\ installed' = setup.installed
        /\ records' = IF mutated
                      THEN Watching(surface, observers, installed)
                      ELSE {}
        /\ lastOp' = [NoOp EXCEPT !.op = t.fn \o ":" \o setup.op]
  /\ debounceTimers' = IF t.key = NoKey THEN debounceTimers
                       ELSE [debounceTimers EXCEPT ![t.key] = 0]
  /\ UNCHANGED <<settings, files, meta, pending, lastReturned, invalidated,
                 screen, refreshed, lifeVars, modalVars, editorVars,
                 container, burst>>

\* the callback of a mutation observer: debounce the surface's pass
RecordsDelivered(o) ==
  /\ o \in records
  /\ records' = records \ {o}
  /\ LET r == debounce(hostTimers, debounceTimers, o, CallbackOf(o),
                       DebounceDelay)
     IN /\ hostTimers' = r.timers
        /\ debounceTimers' = r.map
  /\ lastOp' = [NoOp EXCEPT !.op = "observer"]
  /\ UNCHANGED <<settings, files, meta, cache, pending, lastReturned,
                 invalidated, domVars, lifeVars, modalVars, editorVars,
                 container, installed, burst>>

\* the host puts an element into the document: the file explorer with its
\* first row, a further row, the suggestion popup, the properties panel
HostAdds(e) ==
  /\ records = {}
  /\ e \notin screen
  /\ e.surface \in {"nav", "suggestion", "metalink"}
  /\ e = El("nav", WorkActiveX) => container
  /\ e = El("nav", WorkshopX) => ~container
  /\ screen' = screen \cup {e}
  /\ container' = (container \/ e.surface = "nav")
  /\ records' = IF container' = container
                THEN Watching(e.surface, observers, installed)
                ELSE {}
  /\ lastOp' = [NoOp EXCEPT !.op = "host"]
  /\ UNCHANGED <<settings, files, meta, cache, pending, lastReturned,
                 invalidated, dom, refreshed, lifeVars, modalVars,
                 editorVars, hostTimers, debounceTimers, installed, burst>>

NextWatch ==
  \/ \E t \in hostTimers : TimerRuns(t)
  \/ \E o \in {"fileexplorer", "suggestions", "metadata"} :
       RecordsDelivered(o)
  \/ \E e \in Elements : HostAdds(e)
  \/ records = {} /\ TimePassed

\* timers run, observers are called back and time passes
SpecWatch ==
  /\ InitWatch
  /\ [][NextWatch]_vars
  /\ WF_vars(\E t \in hostTimers : TimerRuns(t))
  /\ WF_vars(\E o \in {"fileexplorer", "suggestions", "metadata"} :
               RecordsDelivered(o))
  /\ WF_vars(records = {} /\ TimePassed)

\* ------------------------------------------------------------------------
\* Reordering the tag rules: the arrow buttons of the settings tab's rows
\* (SettingsTab.ts 301-332) and the buttons and the drag handle of the
\* modal's rows (src/unnamed/part_004). The modal is closed when modal is
\* << >>. The cache is empty throughout, so the clearCache that follows the
\* save is left out of the picture.
\* ------------------------------------------------------------------------

\* the swap of "Move up" in the row drawn for index (rows count from 1)
moveUp(tagMappings, index) ==
  IF index > 1
  THEN [tagMappings EXCEPT ![index] = tagMappings[index - 1],
                           ![index - 1] = tagMappings[index]]
  ELSE tagMappings

\* the swap of "Move down"
moveDown(tagMappings, index) ==
  IF index < Len(tagMappings)
  THEN [tagMappings EXCEPT ![index] = tagMappings[index + 1],
                           ![index + 1] = tagMappings[index]]
  ELSE tagMappings

\* renderMappings: this.mappings.findIndex((m) => m.tag === mapping.tag &&
\* m.icon === mapping.icon), the index a row's handlers are bound to
actualIndex(mappings, mapping) ==
  CHOOSE i \in 1..Len(mappings) :
    /\ mappings[i] = mapping
    /\ \A j \in 1..(i - 1) : mappings[j] # mapping

\* this.rows[displayIndex].index for the rows renderMappings has drawn
RowIndexes(m) ==
  [d \in 1..Len(m.filteredMappings) |->
     actualIndex(m.mappings, m.filteredMappings[d])]

moveToTop(mappings, index) ==
  IF index = 1 THEN mappings
  ELSE <<mappings[index]>> \o splice(mappings, index)

moveToBottom(mappings, index) ==
  IF index = Len(mappings) THEN mappings
  ELSE splice(mappings, index) \o <<mappings[index]>>

\* seq.splice(i, 0, x), indices counted from 1
spliceIn(seq, i, x) ==
  SubSeq(seq, 1, i - 1) \o <<x>> \o SubSeq(seq, i, Len(seq))

\* startDrag(e, index) up to handleMouseUp with the pointer over the row
\* drawn at over: nothing moves when that row is bound to index itself
dragTo(mappings, rows, index, over) ==
  IF rows[over] = index THEN mappings
  ELSE spliceIn(splice(mappings, index), rows[over], mappings[index])

ReorderRules ==
  {tm \in SeqsUpTo(ModalRuleInputs, MaxMappings) : Len(tm) >= 2}

\* the settings tab is shown, the modal is closed
InitReorder ==
  /\ \E tm \in ReorderRules :
       settings = [RenderSettings EXCEPT !.tagMappings = tm]
  /\ files = {}
  /\ meta = [p \in Paths |-> NoMetadata]
  /\ cache = [p \in Paths |-> Undefined]
  /\ pending = << >>
  /\ lastOp = NoOp
  /\ lastReturned = [p \in Paths |-> NoCall]
  /\ invalidated = [p \in Paths |-> NoCall]
  /\ DomIdle /\ LifeIdle /\ ModalIdle /\ HostIdle

\* lastOp keeps the row the button or handle belongs to, the row the drag
\* ended over, and the list as it was
SettingsRowMoved(op, index, tagMappings) ==
  /\ modal = << >>
  /\ index \in 1..Len(settings.tagMappings)
  /\ settings' = [settings EXCEPT !.tagMappings = tagMappings]
  /\ lastOp' = Op(op, index, 0, Undefined, 0, settings.tagMappings, NoCall)
  /\ UNCHANGED <<files, meta, cache, pending, lastReturned, invalidated>>
  /\ UNCHANGED uiVars

MoveUpClicked(index) ==
  SettingsRowMoved("moveUp", index, moveUp(settings.tagMappings, index))

MoveDownClicked(index) ==
  SettingsRowMoved("moveDown", index, moveDown(settings.tagMappings, index))

\* new TagMappingModal(app, plugin).open()
ModalOpened ==
  /\ modal = << >>
  /\ modal' = [mappings |-> settings.tagMappings,
               filteredMappings |-> settings.tagMappings,
               searchInput |-> << >>, notice |-> ""]
  /\ lastOp' = [NoOp EXCEPT !.op = "open"]
  /\ UNCHANGED <<settings, files, meta, cache, pending, lastReturned,
                 invalidated>>
  /\ UNCHANGED <<domVars, lifeVars, disk, hostVars>>

ModalClosed ==
  /\ modal # << >>
  /\ modal' = << >>
  /\ lastOp' = [NoOp EXCEPT !.op = "close"]
  /\ UNCHANGED <<settings, files, meta, cache, pending, lastReturned,
                 invalidated>>
  /\ UNCHANGED <<domVars, lifeVars, disk, hostVars>>

SearchTyped(input) ==
  /\ modal # << >>
  /\ SearchInput(input)

\* a reorder in the modal, with autoSave and the handleSearch that redraws
ModalRowMoved(op, row, over, mappings) ==
  /\ modal' = [modal EXCEPT
                 !.mappings = mappings,
                 !.filteredMappings = handleSearch(mappings, modal.searchInput)]
  /\ settings' = [settings EXCEPT !.tagMappings = mappings]
  /\ lastOp' = Op(op, row, over, Undefined, 0, modal.mappings, NoCall)
  /\ UNCHANGED <<files, meta, cache, pending, lastReturned, invalidated>>
  /\ UNCHANGED <<domVars, lifeVars, disk, hostVars>>

MoveToTopClicked(row) ==
  /\ modal # << >>
  /\ row \in 1..Len(modal.filteredMappings)
  /\ ModalRowMoved("moveToTop", row, 0,
                   moveToTop(modal.mappings, RowIndexes(modal)[row]))

MoveToBottomClicked(row) ==
  /\ modal # << >>
  /\ row \in 1..Len(modal.filteredMappings)
  /\ ModalRowMoved("moveToBottom", row, 0,
                   moveToBottom(modal.mappings, RowIndexes(modal)[row]))

\* the handle of row is dragged and released over the row over
RowDragged(row, over) ==
  /\ modal # << >>
  /\ row \in 1..Len(modal.filteredMappings)
  /\ over \in 1..Len(modal.filteredMappings)
  /\ ModalRowMoved("drag", row, over,
                   dragTo(modal.mappings, RowIndexes(modal),
                          RowIndexes(modal)[row], over))

NextReorder ==
  \/ \E index \in 1..MaxMappings : MoveUpClicked(index)
  \/ \E index \in 1..MaxMappings : MoveDownClicked(index)
  \/ ModalOpened
  \/ ModalClosed
  \/ \E input \in SearchInputs : SearchTyped(input)
  \/ \E row \in 1..MaxMappings : MoveToTopClicked(row)
  \/ \E row \in 1..MaxMappings : MoveToBottomClicked(row)
  \/ \E row \in 1..MaxMappings, over \in 1..MaxMappings : RowDragged(row, over)

SpecReorder == InitReorder /\ [][NextReorder]_vars

\* ------------------------------------------------------------------------
\* The targeted re-renders of the sub-renderers: one file's elements are
\* looked up and given the file's icon anew
\* ------------------------------------------------------------------------

\* FileViewRenderer.updateSingleFileIcon: the tab header of the first leaf
\* that shows the file, and, when the active leaf shows the file, every
\* .inline-title of the document
updateSingleFileViewIcon(st, w, file) ==
  IF ~w.s.renderInFileView THEN st
  ELSE LET tabs == IF \E i \in 1..Len(Leaves) : Leaves[i] = file
                   THEN updateTabHeaderForLeaf(st, w, file)
                   ELSE st
       IN IF ActiveLeafFile = file
          THEN ForEach(LAMBDA t, e : updateInlineTitleIcon(t, w, e),
                       Present(InlineTitles, w.scr), 1, tabs)
          ELSE tabs

\* WikilinkRenderer.updateWikilinksForFile: every a.internal-link and
\* div.internal-link in the content of a markdown view whose link resolves
\* to the target file
updateWikilinksForFile(st, w, targetFile) ==
  IF ~w.s.renderInWikilinks THEN st
  ELSE ForEach(LAMBDA t, e : IF e.file \in w.fs /\ e.file = targetFile
                             THEN ReplaceIcon(t, w, e, targetFile)
                             ELSE t,
               Present(WikiLinks \o MetadataLinks, w.scr), 1, st)

\* a targeted re-render has run; lastOp keeps the markers as they were
Targeted(op, file, st) ==
  /\ file \in files
  /\ dom' = st.dom
  /\ cache' = st.cache
  /\ lastOp' = Op(op, file, << >>, Undefined, 0, dom, NoCall)
  /\ refreshed' = FALSE
  /\ UNCHANGED <<settings, files, meta, pending, lastReturned, invalidated>>
  /\ UNCHANGED <<screen, lifeVars, modalVars, hostVars>>

SingleFileListIconUpdated(file) ==
  Targeted("FileListRenderer.updateSingleFileIcon", file,
           updateSingleFileIcon(Now, Here, file))

SingleFileViewIconUpdated(file) ==
  Targeted("FileViewRenderer.updateSingleFileIcon", file,
           updateSingleFileViewIcon(Now, Here, file))

WikilinksForFileUpdated(file) ==
  Targeted("updateWikilinksForFile", file,
           updateWikilinksForFile(Now, Here, file))

\* metadata changes, which the plugin's handler follows up, and targeted
\* re-renders of either file over a rendered document
NextTargeted ==
  \/ \E file \in VaultPaths, m \in VaultMetadata \ {NoMetadata} :
       MetadataChangedHandler(file, m)
  \/ \E file \in VaultPaths : SingleFileListIconUpdated(file)
  \/ \E file \in VaultPaths : SingleFileViewIconUpdated(file)
  \/ \E file \in VaultPaths : WikilinksForFileUpdated(file)

SpecTargeted == InitRender /\ [][NextTargeted]_vars

\* ------------------------------------------------------------------------
\* The callbacks of the two mutation observers on document.body
\* (SuggestionRenderer.initialize, MetadataRenderer.initialize). Of a node
\* the callbacks ask whether it is an Element, the classes it has
\* (classList.contains), the classes it or an ancestor has (closest) and the
\* classes found below it (querySelector)
\* ------------------------------------------------------------------------
MaxBatch == 2

Node(element, classes, ancestors, descendants) ==
  [element |-> element, classes |-> classes, ancestors |-> ancestors,
   descendants |-> descendants]

closest(node, class) == class \in node.classes \cup node.ancestors

contains(node, class) == class \in node.classes

querySelector(node, class) == class \in node.descendants

\* where the host or a renderer changes children: the body, a row of the
\* explorer, a search result, a property of the properties panel, a row of
\* the suggestion popup, a document fragment
MutationTargets ==
  {Node(TRUE, {}, {}, {"nav-files-container", "suggestion-container"}),
   Node(TRUE, {"nav-file-title"}, {"nav-files-container"}, {}),
   Node(TRUE, {"search-result-file-title"}, {"search-results"}, {}),
   Node(TRUE, {"metadata-property"}, {"metadata-container"},
        {"metadata-link-inner"}),
   Node(TRUE, {"suggestion-item"}, {"suggestion-container"}, {}),
   Node(FALSE, {}, {}, {})}

\* what is added: a marker, a suggestion row, a pane with a properties
\* panel in it
AddedNodes ==
  {Node(TRUE, {"file-icon"}, {}, {}),
   Node(TRUE, {"suggestion-item"}, {}, {}),
   Node(TRUE, {"workspace-leaf"}, {},
        {"metadata-container", "metadata-link-inner"})}

MutationRecord(target, addedNodes) ==
  [target |-> target, addedNodes |-> addedNodes]

\* a record with one added node
MutationRecords ==
  {MutationRecord(target, {node}) :
     target \in MutationTargets, node \in AddedNodes}

\* what an observer is called with: one record or more
Batches == SeqsUpTo(MutationRecords, MaxBatch) \ {<< >>}

IsSuggestionNode(node) ==
  /\ node.element
  /\ \/ contains(node, "suggestion-container")
     \/ contains(node, "suggestion-item")
     \/ querySelector(node, "suggestion-container")

\* the loop of the suggestion observer without its early `continue`
RECURSIVE hasSuggestions_NoExclusion(_, _)
hasSuggestions_NoExclusion(mutations, i) ==
  IF i > Len(mutations) THEN FALSE
  ELSE \/ /\ mutations[i].target.element
          /\ \/ contains(mutations[i].target, "suggestion-container")
             \/ contains(mutations[i].target, "suggestion-item")
             \/ closest(mutations[i].target, "suggestion-container")
       \/ \E node \in mutations[i].addedNodes : IsSuggestionNode(node)
       \/ hasSuggestions_NoExclusion(mutations, i + 1)

\* the loop of the suggestion observer over the records from the i-th on
RECURSIVE hasSuggestions(_, _)
hasSuggestions(mutations, i) ==
  IF i > Len(mutations) THEN FALSE
  ELSE IF /\ mutations[i].target.element
          /\ \/ closest(mutations[i].target, "search-results")
             \/ closest(mutations[i].target, "nav-files-container")
             \/ closest(mutations[i].target, "metadata-container")
  THEN hasSuggestions(mutations, i + 1)
  ELSE \/ /\ mutations[i].target.element
          /\ \/ contains(mutations[i].target, "suggestion-container")
             \/ contains(mutations[i].target, "suggestion-item")
             \/ closest(mutations[i].target, "suggestion-container")
       \/ \E node \in mutations[i].addedNodes : IsSuggestionNode(node)
       \/ hasSuggestions(mutations, i + 1)

MetadataClasses ==
  {"metadata-link-inner", "metadata-container", "multi-select-pill",
   "multi-select-container"}

\* the loop of the metadata observer
RECURSIVE hasMetadata(_, _)
hasMetadata(mutations, i) ==
  IF i > Len(mutations) THEN FALSE
  ELSE \/ /\ mutations[i].target.element
          /\ \E class \in MetadataClasses : closest(mutations[i].target, class)
       \/ \E node \in mutations[i].addedNodes :
            /\ node.element
            /\ \/ \E class \in MetadataClasses : contains(node, class)
               \/ querySelector(node, "metadata-link-inner")
               \/ querySelector(node, "multi-select-pill")
       \/ hasMetadata(mutations, i + 1)

\* an observer's callback is run with a batch of records: it hands the
\* surface's pass to debounce when its loop found something. lastOp keeps
\* the batch and whether debounce was called
ObserverCalled(key, mutations, found, fn) ==
  /\ LET r == debounce(hostTimers, debounceTimers, key, fn, DebounceDelay)
     IN /\ hostTimers' = IF found THEN r.timers ELSE hostTimers
        /\ debounceTimers' = IF found THEN r.map ELSE debounceTimers
  /\ lastOp' = Op(key, << >>, << >>, found, 0, mutations, NoCall)
  /\ UNCHANGED <<settings, files, meta, cache, pending, lastReturned,
                 invalidated, domVars, lifeVars, modalVars, editorVars,
                 records, container, installed, burst>>

SuggestionObserverCalled(mutations) ==
  ObserverCalled("suggestions", mutations, hasSuggestions(mutations, 1),
                 "updateSuggestionIcons")

MetadataObserverCalled(mutations) ==
  ObserverCalled("metadata", mutations, hasMetadata(mutations, 1),
                 "updateMetadataLinkIcons")

NextFilter ==
  \/ \E mutations \in Batches : SuggestionObserverCalled(mutations)
  \/ \E mutations \in Batches : MetadataObserverCalled(mutations)
  \/ CleanedUp

SpecFilter == InitDebounce /\ [][NextFilter]_vars

\* ------------------------------------------------------------------------
\* Replacing the renderer: whose observers, timers and event handlers are
\* live after reloadRenderer (src/src/main.ts, src/src/IconRenderer.ts)
\* ------------------------------------------------------------------------
MaxReloads == 1

\* the resources of the given names that belong to the renderer that was
\* replaced `age` times ago (0: the plugin's current iconRenderer)
Owned(names, age) == {[name |-> n, age |-> age] : n \in names}

\* plugin.iconRenderer is assigned a new renderer: every renderer made
\* before is one replacement older
Older(rs) == {[r EXCEPT !.age = @ + 1] : r \in rs}

\* IconRenderer.onunload of the current renderer: the observers in its
\* this.observers are disconnected, the list is emptied
rendererOnunload(obs) == {o \in obs : o.age # 0}

\* the plugin right after onload: the body observers are connected, the
\* first renders are scheduled, the handlers are registered
InitReload ==
  /\ settings = RenderSettings
  /\ files = {WorkActiveX}
  /\ meta = [p \in Paths |->
               IF p = WorkActiveX
               THEN Metadata(<<<<"#">> \o Urgent>>, FALSE, NoFrontmatter)
               ELSE NoMetadata]
  /\ screen = {El("nav", WorkActiveX)}
  /\ dom = [e \in Elements |-> << >>]
  /\ cache = [p \in Paths |-> Undefined]
  /\ pending = << >>
  /\ lastOp = NoOp
  /\ lastReturned = [p \in Paths |-> NoCall]
  /\ invalidated = [p \in Paths |-> NoCall]
  /\ refreshed = FALSE
  /\ loaded = TRUE
  /\ observers = Owned(RendererObservers(settings), 0)
  /\ timers = Owned(InitialRenders(settings), 0)
  /\ subs = Owned(RendererSubs(settings), 0)
  /\ dispatch = << >>
  /\ ModalIdle
  /\ HostIdle

\* code of the renderer `owner` belongs to has run and left the document
\* and the cache as in st
RendererRan(op, owner, st) ==
  /\ dom' = st.dom
  /\ cache' = st.cache
  /\ lastOp' = Op(op, << >>, << >>, Undefined, 0, owner, NoCall)
  /\ refreshed' = FALSE

\* the toggle handler resumes after `await saveSettings()`: nothing more
\* for renderInWikilinks; for the other two reloadRenderer():
\* iconRenderer.onunload(), a new IconRenderer, its initializeRendering()
RendererReloaded(i) ==
  /\ i \in 1..Len(pending)
  /\ pending[i] \in {"saved", "reloadRenderer"}
  /\ pending' = SubSeq(pending, 1, i - 1) \o SubSeq(pending, i + 1, Len(pending))
  /\ IF pending[i] = "reloadRenderer"
     THEN /\ \A r \in observers \cup timers \cup subs : r.age < MaxReloads
          /\ observers' = Older(rendererOnunload(observers))
                            \cup Owned(RendererObservers(settings), 0)
          /\ subs' = Older(subs) \cup Owned(RendererSubs(settings), 0)
          /\ timers' = Older(timers) \cup Owned(InitialRenders(settings), 0)
     ELSE UNCHANGED <<observers, subs, timers>>
  /\ lastOp' = Op(pending[i], << >>, << >>, Undefined, 0, NoCall, NoCall)
  /\ refreshed' = FALSE
  /\ UNCHANGED <<settings, files, meta, cache, lastReturned, invalidated>>
  /\ UNCHANGED <<screen, dom, loaded, dispatch, modalVars, hostVars>>

\* a setTimeout callback of a renderer runs; the file-list one also calls
\* setupFileExplorerObserver, which connects an observer and pushes it on
\* that renderer's this.observers
RendererTimerFires(t) ==
  /\ t \in timers
  /\ timers' = timers \ {t}
  /\ observers' = IF t.name = "filelist"
                  THEN observers \cup Owned({"fileexplorer"}, t.age)
                  ELSE observers
  /\ RendererRan("timer", t,
         CASE t.name = "fileview" -> updateFileViewIcons(Now, Here)
           [] t.name \in {"filelist", "rerender"}
                -> updateFileExplorerIcons(Now, Here)
           [] t.name \in {"metadata", "properties"}
                -> updateMetadataLinkIcons(Now, Here)
           [] t.name = "suggestions" -> updateSuggestionIcons(Now, Here))
  /\ UNCHANGED <<settings, files, meta, pending, lastReturned, invalidated,
                 screen, loaded, subs, dispatch, modalVars, hostVars>>

\* a connected observer reports mutations: the file explorer's renders at
\* once, the body observers start their debounce timer
RendererObserverFires(o) ==
  /\ o \in observers
  /\ timers' = CASE o.name = "suggestions"
                      -> timers \cup Owned({"suggestions"}, o.age)
                 [] o.name = "metadata"
                      -> timers \cup Owned({"properties"}, o.age)
                 [] o.name = "fileexplorer" -> timers
  /\ RendererRan("observer", o,
         IF o.name = "fileexplorer" THEN updateFileExplorerIcons(Now, Here)
         ELSE Now)
  /\ UNCHANGED <<settings, files, meta, pending, lastReturned, invalidated,
                 screen, loaded, observers, subs, dispatch, modalVars,
                 hostVars>>

\* the host delivers an event to one registered handler of a renderer:
\* the file-view handlers render at once, the others start a 100 ms timer
RendererHandlerRuns(h) ==
  /\ h \in subs
  /\ timers' = CASE h.name = "renderer:metadata-leaf"
                      -> timers \cup Owned({"metadata"}, h.age)
                 [] h.name \in {"renderer:rename", "renderer:changed"}
                      -> timers \cup Owned({"rerender"}, h.age)
                 [] OTHER -> timers
  /\ RendererRan("handler", h,
         IF h.name \in {"renderer:active-leaf-change",
                        "renderer:layout-change"}
         THEN updateFileViewIcons(Now, Here) ELSE Now)
  /\ UNCHANGED <<settings, files, meta, pending, lastReturned, invalidated,
                 screen, loaded, observers, subs, dispatch, modalVars,
                 hostVars>>

\* every renderer-owned resource there can be
RendererResources ==
  {[name |-> n, age |-> a] :
     n \in TimerNames \cup {"fileexplorer", "suggestions", "metadata"}
            \cup RendererSubs([renderInFileView |-> TRUE,
                               renderInFileLists |-> TRUE,
                               renderInWikilinks |-> TRUE]),
     a \in 0..MaxReloads}

NextReload ==
  \/ \E name \in {"renderInFileView", "renderInFileLists"} :
       RenderingToggleChanged(name)
  \/ \E i \in 1..MaxPending : RendererReloaded(i)
  \/ \E t \in RendererResources : RendererTimerFires(t)
  \/ \E o \in RendererResources : RendererObserverFires(o)
  \/ \E h \in RendererResources : RendererHandlerRuns(h)

SpecReload == InitReload /\ [][NextReload]_vars

\* ------------------------------------------------------------------------
\* Vocabulary of the properties
\* ------------------------------------------------------------------------
\* the last operation was a getIconForFile that found no cache entry
FreshLookup == lastOp.op = "getIconForFile" /\ lastOp.reads = 1

LookedUpMetadata == meta[lastOp.file]

HasContent(s) == \E i \in 1..Len(s) : s[i] \notin Whitespace

IsBlank(s) == \A i \in 1..Len(s) : s[i] \in Whitespace

ConfiguredProperty(s) ==
  IF s.frontmatterProperty = "" THEN "icon" ELSE s.frontmatterProperty

\* the configured frontmatter property of the file is a non-blank string
HasFrontmatterIcon(s, md) ==
  /\ md.exists /\ md.hasFrontmatter
  /\ md.frontmatter[ConfiguredProperty(s)].k = "string"
  /\ HasContent(md.frontmatter[ConfiguredProperty(s)].s)

FrontmatterYieldsNothing(s, md) ==
  ~s.enableFrontmatter \/ ~HasFrontmatterIcon(s, md)

\* the tags of the file, as a set
FileTagSet(md) ==
  IF md.exists THEN {AllTags(md)[i] : i \in 1..Len(AllTags(md))} ELSE {}

\* the tag rules that match the file and carry a non-blank icon
MatchingTagRules(s, md) ==
  {i \in 1..Len(s.tagMappings) :
     /\ NormalizeTag(s.tagMappings[i].tag) \in FileTagSet(md)
     /\ HasContent(s.tagMappings[i].icon)}

TagsYieldNothing(s, md) == ~s.enableTags \/ MatchingTagRules(s, md) = {}

\* the folder rules that match the path and carry a non-blank icon
MatchingFolderRules(s, filePath) ==
  {i \in 1..Len(s.folderMappings) :
     /\ FolderMatches(filePath, NormalizeFolderPath(s.folderMappings[i].path))
     /\ HasContent(s.folderMappings[i].icon)}

FoldersYieldNothing(s, filePath) ==
  ~s.enableFolders \/ MatchingFolderRules(s, filePath) = {}

RuleDepth(s, i) == SplitLength(NormalizeFolderPath(s.folderMappings[i].path))

Minimum(S) == CHOOSE x \in S : \A y \in S : x <= y

RemoveAt(seq, i) == SubSeq(seq, 1, i - 1) \o SubSeq(seq, i + 1, Len(seq))

\* ------------------------------------------------------------------------
\* C1: with frontmatter association enabled, a file whose configured
\* frontmatter property is a string with non-whitespace content resolves
\* (from an empty cache slot) to exactly that string, whatever the tag and
\* folder rules and toggles are.
\* ------------------------------------------------------------------------
C1_FrontmatterWins ==
  (/\ FreshLookup
   /\ settings.enableFrontmatter
   /\ HasFrontmatterIcon(settings, LookedUpMetadata))
  => lastOp.result =
       Str(LookedUpMetadata.frontmatter[ConfiguredProperty(settings)].s)

C1_Witness ==
  /\ FreshLookup
  /\ settings.enableFrontmatter /\ settings.enableTags
  /\ settings.enableFolders
  /\ HasFrontmatterIcon(settings, LookedUpMetadata)
  /\ MatchingTagRules(settings, LookedUpMetadata) # {}
  /\ MatchingFolderRules(settings, lastOp.file) # {}
  /\ lastOp.result = Str(Star)

\* ------------------------------------------------------------------------
\* C2: when the frontmatter tier yields nothing and an enabled tag tier has
\* a matching rule with a non-blank icon, the result is a matching tag
\* rule's icon even if a folder rule matches too; the folder tier decides
\* only when the tag tier yields nothing; when no enabled tier yields an
\* icon the result is null.
\* ------------------------------------------------------------------------
C2_TagsBeforeFolders ==
  (FreshLookup /\ FrontmatterYieldsNothing(settings, LookedUpMetadata))
  => /\ ~TagsYieldNothing(settings, LookedUpMetadata)
        => \E i \in MatchingTagRules(settings, LookedUpMetadata) :
             lastOp.result = Str(settings.tagMappings[i].icon)
     /\ (/\ TagsYieldNothing(settings, LookedUpMetadata)
         /\ ~FoldersYieldNothing(settings, lastOp.file))
        => \E i \in MatchingFolderRules(settings, lastOp.file) :
             lastOp.result = Str(settings.folderMappings[i].icon)
     /\ (/\ TagsYieldNothing(settings, LookedUpMetadata)
         /\ FoldersYieldNothing(settings, lastOp.file))
        => lastOp.result = Null

C2_Witness ==
  /\ FreshLookup
  /\ FrontmatterYieldsNothing(settings, LookedUpMetadata)
  /\ ~TagsYieldNothing(settings, LookedUpMetadata)
  /\ ~FoldersYieldNothing(settings, lastOp.file)
  /\ lastOp.result = Str(Alert)

\* ------------------------------------------------------------------------
\* C3: the tag tier gives the icon of the first rule, in list order, whose
\* normalized tag is in the file's tag set and whose icon is non-blank,
\* independently of the order of the tags on the file; rules
\* [urgent->alert, project->folder] on a file tagged urgent and project
\* give alert.
\* ------------------------------------------------------------------------
C3_FirstTagRuleWins ==
  (/\ FreshLookup
   /\ FrontmatterYieldsNothing(settings, LookedUpMetadata)
   /\ ~TagsYieldNothing(settings, LookedUpMetadata))
  => /\ lastOp.result =
          Str(settings.tagMappings[
                Minimum(MatchingTagRules(settings, LookedUpMetadata))].icon)
     /\ (/\ settings.tagMappings =
              <<TagMapping(Urgent, Alert),
                TagMapping(<<" ", "#">> \o Project, FolderIcon)>>
         /\ {Urgent, Project} \subseteq FileTagSet(LookedUpMetadata))
        => lastOp.result = Str(Alert)

C3_Witness ==
  /\ FreshLookup
  /\ FrontmatterYieldsNothing(settings, LookedUpMetadata)
  /\ settings.enableTags
  /\ settings.tagMappings =
       <<TagMapping(Urgent, Alert),
         TagMapping(<<" ", "#">> \o Project, FolderIcon)>>
  /\ LookedUpMetadata.tags = <<<<"#">> \o Project, <<"#">> \o Urgent>>
  /\ lastOp.result = Str(Alert)

\* ------------------------------------------------------------------------
\* C4: in the folder tier the returned icon belongs to a rule of greatest
\* depth among the matching rules with a non-blank icon, for every order of
\* the rule list; with work->briefcase and work/active->zap,
\* work/active/x.md gives zap and work/other/x.md gives briefcase.
\* ------------------------------------------------------------------------
WorkRules ==
  {<<FolderMapping(Work, Briefcase),
     FolderMapping(Slash \o Work \o Slash \o Active \o Slash, Zap)>>,
   <<FolderMapping(Slash \o Work \o Slash \o Active \o Slash, Zap),
     FolderMapping(Work, Briefcase)>>}

C4_DeepestFolderWins ==
  (/\ FreshLookup
   /\ FrontmatterYieldsNothing(settings, LookedUpMetadata)
   /\ TagsYieldNothing(settings, LookedUpMetadata)
   /\ ~FoldersYieldNothing(settings, lastOp.file))
  => /\ \E i \in MatchingFolderRules(settings, lastOp.file) :
          /\ lastOp.result = Str(settings.folderMappings[i].icon)
          /\ \A j \in MatchingFolderRules(settings, lastOp.file) :
               RuleDepth(settings, j) <= RuleDepth(settings, i)
     /\ settings.folderMappings \in WorkRules
        => /\ lastOp.file = WorkActiveX => lastOp.result = Str(Zap)
           /\ lastOp.file = WorkOtherX => lastOp.result = Str(Briefcase)

C4_Witness ==
  /\ FreshLookup
  /\ settings.enableFolders
  /\ settings.folderMappings =
       <<FolderMapping(Slash \o Work \o Slash \o Active \o Slash, Zap),
         FolderMapping(Work, Briefcase)>>
  /\ lastOp.file = WorkActiveX
  /\ lastOp.result = Str(Zap)

\* ------------------------------------------------------------------------
\* C5: a folder rule applies only to files inside the folder (the path
\* starts with the normalized rule path followed by '/'); with only folder
\* association enabled, a file outside every mapped folder resolves to no
\* icon.
\* ------------------------------------------------------------------------
InsideFolder(filePath, folderPath) ==
  folderPath # << >> /\ StartsWith(filePath, folderPath \o <<"/">>)

C5_OutsideFoldersNoIcon ==
  (/\ FreshLookup
   /\ ~settings.enableFrontmatter /\ ~settings.enableTags
   /\ settings.enableFolders
   /\ \A i \in 1..Len(settings.folderMappings) :
        ~InsideFolder(lastOp.file,
                      NormalizeFolderPath(settings.folderMappings[i].path)))
  => lastOp.result = Null

\* ------------------------------------------------------------------------
\* C6: a getIconForFile call that follows an earlier call for the same path
\* with no invalidateFile / clearCache / updateSettings in between returns
\* the value of the earlier call and does not query the host metadata
\* cache, also when that value is null.
\* ------------------------------------------------------------------------
C6_SecondLookupIsCacheHit ==
  (lastOp.op = "getIconForFile" /\ lastOp.prev # NoCall)
  => lastOp.result = lastOp.prev /\ lastOp.reads = 0

C6_Witness ==
  /\ lastOp.op = "getIconForFile"
  /\ lastOp.prev = Null
  /\ lastOp.result = Null
  /\ lastOp.reads = 0

\* ------------------------------------------------------------------------
\* C7: the first getIconForFile for a path after invalidateFile (called
\* directly by a file event handler, the lookup being made by the handler's
\* own re-render or by a later render) queries the host metadata and
\* returns the value that the current metadata and the current settings
\* determine, not the value that was cached before.
\* ------------------------------------------------------------------------
LookupAfterInvalidate ==
  \/ lastOp.op = "getIconForFile" /\ lastOp.dropped # NoCall
  \/ lastOp.op \in {"changed", "rename"} /\ lastOp.result # Undefined

C7_LookupAfterInvalidateIsFresh ==
  LookupAfterInvalidate
  => /\ lastOp.reads = 1
     /\ lastOp.result = ResolveIcon(settings, LookedUpMetadata, lastOp.file)

C7_Witness ==
  /\ lastOp.op = "getIconForFile"
  /\ lastOp.dropped \notin {NoCall, Undefined}
  /\ lastOp.reads = 1
  /\ lastOp.result # lastOp.dropped

C7_WitnessHandler ==
  /\ lastOp.op = "changed"
  /\ lastOp.dropped = Str(Star)
  /\ lastOp.result = Str(Alert)

\* ------------------------------------------------------------------------
\* C8: a tag or folder rule with an empty or whitespace-only icon is never
\* returned and blocks nothing: the result equals the one obtained with
\* that rule removed from its list.
\* ------------------------------------------------------------------------
BlankTagRules(s) ==
  {i \in 1..Len(s.tagMappings) : IsBlank(s.tagMappings[i].icon)}

BlankFolderRules(s) ==
  {i \in 1..Len(s.folderMappings) : IsBlank(s.folderMappings[i].icon)}

C8_BlankIconRuleIsSkipped ==
  FreshLookup
  => /\ \A i \in BlankTagRules(settings) :
          lastOp.result =
            ResolveIcon([settings EXCEPT !.tagMappings = RemoveAt(@, i)],
                        LookedUpMetadata, lastOp.file)
     /\ \A i \in BlankFolderRules(settings) :
          lastOp.result =
            ResolveIcon([settings EXCEPT !.folderMappings = RemoveAt(@, i)],
                        LookedUpMetadata, lastOp.file)
     /\ ~IsBlank(lastOp.result.s) \/ lastOp.result = Null

C8_Witness ==
  /\ FreshLookup
  /\ settings.enableTags
  /\ settings.tagMappings =
       <<TagMapping(<<"#">> \o Urgent, Blank), TagMapping(Urgent, Alert)>>
  /\ Urgent \in FileTagSet(LookedUpMetadata)
  /\ lastOp.result = Str(Alert)

C8_WitnessFolder ==
  /\ FreshLookup
  /\ settings.enableFolders
  /\ settings.folderMappings =
       <<FolderMapping(Work, Briefcase),
         FolderMapping(Work \o Slash \o Active, Empty)>>
  /\ lastOp.file = WorkActiveX
  /\ lastOp.result = Str(Briefcase)

\* ------------------------------------------------------------------------
\* C9: a disabled association method contributes nothing: the result with
\* a method disabled equals the result with the method enabled and the
\* file without frontmatter icon (resp. an empty tag rule list, an empty
\* folder rule list); a file whose only match is a tag rule resolves to
\* null when tag association is disabled.
\* ------------------------------------------------------------------------
WithoutFrontmatterIcon(s, md) ==
  [md EXCEPT !.frontmatter[ConfiguredProperty(s)] = Undefined]

C9_DisabledMethodContributesNothing ==
  FreshLookup
  => /\ ~settings.enableFrontmatter
        => lastOp.result =
             ResolveIcon([settings EXCEPT !.enableFrontmatter = TRUE],
                         WithoutFrontmatterIcon(settings, LookedUpMetadata),
                         lastOp.file)
     /\ ~settings.enableTags
        => lastOp.result =
             ResolveIcon([settings EXCEPT !.enableTags = TRUE,
                                          !.tagMappings = << >>],
                         LookedUpMetadata, lastOp.file)
     /\ ~settings.enableFolders
        => lastOp.result =
             ResolveIcon([settings EXCEPT !.enableFolders = TRUE,
                                          !.folderMappings = << >>],
                         LookedUpMetadata, lastOp.file)
     /\ (/\ ~settings.enableTags
         /\ FrontmatterYieldsNothing(settings, LookedUpMetadata)
         /\ FoldersYieldNothing(settings, lastOp.file))
        => lastOp.result = Null

C9_Witness ==
  /\ FreshLookup
  /\ ~settings.enableTags
  /\ MatchingTagRules(settings, LookedUpMetadata) # {}
  /\ FrontmatterYieldsNothing(settings, LookedUpMetadata)
  /\ FoldersYieldNothing(settings, lastOp.file)
  /\ lastOp.result = Null

\* ------------------------------------------------------------------------
\* C10: the rename handler invalidates the cache entries of both paths:
\* after it has run the cache holds no entry for the old path (such an
\* entry can only have been computed before the rename).
\* ------------------------------------------------------------------------
C10_RenameInvalidatesOldPath ==
  lastOp.op = "rename" => cache[lastOp.oldPath] = Undefined

\* ------------------------------------------------------------------------
\* Rendering vocabulary
\* ------------------------------------------------------------------------
\* the rendering toggle that governs a surface
SurfaceToggle(surface) ==
  CASE surface \in {"wikilink", "decoration", "suggestion", "metalink"}
         -> "renderInWikilinks"
    [] surface \in {"tab", "title"} -> "renderInFileView"
    [] surface \in {"nav", "search"} -> "renderInFileLists"

SurfaceEnabled(e) == settings[SurfaceToggle(e.surface)]

\* the markers of an element that shows the file's current resolution
ExpectedMarkers(file) ==
  LET icon == ResolveIcon(settings, meta[file], file)
  IN IF Truthy(icon) THEN <<icon>> ELSE << >>

InLine(e) == dom[e] = ExpectedMarkers(e.file)

\* ------------------------------------------------------------------------
\* C11: once the metadata-changed handler for a file has run, every element
\* on screen that shows the file on an enabled surface carries the marker
\* of the file's fresh resolution (none when it is null), and the
\* live-preview editors have been sent the refresh signal
\* ------------------------------------------------------------------------
C11_ChangedFileRerenderedEverywhere ==
  lastOp.op = "changed" =>
    /\ refreshed
    /\ \A e \in screen :
         (e.file = lastOp.file /\ SurfaceEnabled(e)) => InLine(e)

\* ------------------------------------------------------------------------
\* C12: when a handler of a file-change event schedules a re-render, the
\* cache entry the file had before the event is no longer present
\* ------------------------------------------------------------------------
C12_InvalidatedBeforeRerenderScheduled ==
  lastOp.op = "changed:renderer" => lastOp.prev = Undefined

\* ------------------------------------------------------------------------
\* C18: once the plugin is unloaded, every observer it created is
\* disconnected, every timer it scheduled is cancelled and every event
\* handler it registered is removed
\* ------------------------------------------------------------------------
C18_UnloadReleasesEverything ==
  ~loaded => (observers = {} /\ timers = {} /\ subs = {})

\* ------------------------------------------------------------------------
\* C13 as claimed: once the handler of any settings mutation has completed,
\* the resolver cache holds no entry
\* ------------------------------------------------------------------------
SettingsHandlerCompleted ==
  lastOp.op \in {"clearCache", "updateSettings", "saved", "reloadRenderer",
                 "addTagMapping"}

CacheEmpty == \A p \in Paths : cache[p] = Undefined

PassPending(e) ==
  CASE e.surface \in {"tab", "title"} -> "fileview" \in timers
    [] e.surface \in {"nav", "search"}
         -> {"filelist", "rerender"} \cap timers # {}
    [] e.surface = "metalink" -> {"metadata", "properties"} \cap timers # {}
    [] e.surface = "suggestion" -> "suggestions" \in timers
    [] e.surface \in {"wikilink", "decoration"} -> FALSE

C14_SettingsChangeRerenders ==
  lastOp.op \in {"clearCache", "updateSettings", "saved", "reloadRenderer"}
    => \A e \in screen : SurfaceEnabled(e) => (InLine(e) \/ PassPending(e))

\* ------------------------------------------------------------------------
\* C15: after a render pass of a sub-renderer, every element of its
\* surfaces holds at most one marker, and exactly one when the surface is
\* enabled and the element's file resolves to an icon
\* ------------------------------------------------------------------------
\* the surfaces a pass goes over
PassSurfaces(op) ==
  CASE op = "renderWikilinkIcon" -> {"wikilink"}
    [] op = "updateFileExplorerIcons" -> {"nav", "search"}
    [] op = "updateFileViewIcons" -> {"tab", "title"}
    [] op = "updateSuggestionIcons" -> {"suggestion"}
    [] op = "updateMetadataLinkIcons" -> {"metalink"}
    [] OTHER -> {}

\* the elements on screen that the pass that has just run goes over
JustRendered == {e \in screen : e.surface \in PassSurfaces(lastOp.op)}

AtMostOneMarker == \A e \in Elements : Len(dom[e]) <= 1

C15_OneMarkerPerReference ==
  /\ AtMostOneMarker
  /\ \A e \in JustRendered :
       (SurfaceEnabled(e) /\ ExpectedMarkers(e.file) # << >>)
         => Len(dom[e]) = 1

\* ------------------------------------------------------------------------
\* C16: a render pass of a sub-renderer over an enabled surface leaves
\* every element of the surface with the marker of the current resolution,
\* and with none when the resolution is null
\* ------------------------------------------------------------------------
C16_PassBringsMarkersInLine ==
  \A e \in JustRendered : SurfaceEnabled(e) => InLine(e)

\* ------------------------------------------------------------------------
\* C20: when the handlers of the rendering toggles have completed, a
\* surface whose toggle is off shows no marker
\* ------------------------------------------------------------------------
C20_DisabledSurfaceShowsNoMarker ==
  pending = << >> =>
    \A e \in screen : ~SurfaceEnabled(e) => dom[e] = << >>

\* ------------------------------------------------------------------------
\* C17: a settings record that was saved with saveSettings comes back from
\* loadSettings equal to what it was, rule lists in the same order
\* ------------------------------------------------------------------------
LoadedSavedSettings == lastOp.op = "loadSettings" /\ lastOp.reads = 1

C17_SaveLoadRoundTrip ==
  LoadedSavedSettings =>
    /\ settings = lastOp.prev
    /\ \A i \in 1..Len(settings.tagMappings) :
         settings.tagMappings[i] = lastOp.prev.tagMappings[i]
    /\ \A i \in 1..Len(settings.folderMappings) :
         settings.folderMappings[i] = lastOp.prev.folderMappings[i]

\* a record with every toggle away from its default and both rule lists
\* populated with two rules came back
C17_Witness ==
  /\ LoadedSavedSettings
  /\ \A name \in ToggleKeys : settings[name] # DEFAULT_SETTINGS[name]
  /\ Len(settings.tagMappings) = 2
  /\ settings.tagMappings[1] # settings.tagMappings[2]
  /\ Len(settings.folderMappings) = 2

\* ------------------------------------------------------------------------
\* C19: whenever importMappings reports a failure, the modal's mapping list
\* and plugin.settings.tagMappings equal their values before the import
\* started
\* ------------------------------------------------------------------------
ImportFailed == lastOp.op = "importMappings" /\ lastOp.result = "failed"

C19_FailedImportChangesNothing ==
  ImportFailed =>
    /\ modal.mappings = lastOp.prev.mappings
    /\ settings.tagMappings = lastOp.prev.tagMappings

\* ------------------------------------------------------------------------
\* C21: whatever shape the metadata has, a lookup gives what it would give
\* had every malformed part been absent (a property value that is not a
\* string, a tags field that is neither a string nor a list, the members of
\* a tag list that are not strings); without metadata it gives the folder
\* tier's result when folders are enabled and null otherwise
\* ------------------------------------------------------------------------
IsString(v) == v.k = "string"

\* the metadata without its malformed parts; Member says what becomes of a
\* member of the tag list
WellFormed(md, Member(_)) ==
  LET tags == md.frontmatter["tags"]
  IN [md EXCEPT
        !.frontmatter =
           [p \in PropertyNames |->
              IF p # "tags"
              THEN IF IsString(md.frontmatter[p]) THEN md.frontmatter[p]
                   ELSE Undefined
              ELSE IF IsString(tags) THEN tags
              ELSE IF tags.k = "object"
              THEN Arr(SelectSeq([i \in 1..Len(tags.a) |-> Member(tags.a[i])],
                                 IsString))
              ELSE Undefined]]

StringsOnly(v) == v

\* String(v) of a member that is not a string
AsText(v) == Str(v.s)

NoMetadataGivesFolderResult ==
  (FreshLookup /\ ~LookedUpMetadata.exists)
  => lastOp.result = (IF settings.enableFolders
                      THEN getIconFromFolder(settings, lastOp.file)
                      ELSE Null)

C21_MalformedPartsCountAsAbsent ==
  /\ NoMetadataGivesFolderResult
  /\ FreshLookup
     => lastOp.result =
          ResolveIcon(settings, WellFormed(LookedUpMetadata, StringsOnly),
                      lastOp.file)

\* C21 as amended: the members of a tag list that are not strings count as
\* tags with their text
C21_MalformedPartsAbsentMembersAsText ==
  /\ NoMetadataGivesFolderResult
  /\ FreshLookup
     => lastOp.result =
          ResolveIcon(settings, WellFormed(LookedUpMetadata, AsText),
                      lastOp.file)

\* a number for the property and for the tags, and the lookup went on to
\* the folder rule
C21_Witness ==
  /\ FreshLookup
  /\ settings.enableFrontmatter /\ settings.enableTags
  /\ settings.tagMappings # << >>
  /\ LookedUpMetadata.hasFrontmatter
  /\ LookedUpMetadata.frontmatter["icon"] = Num(<<"7">>)
  /\ LookedUpMetadata.frontmatter["tags"] = Num(<<"7">>)
  /\ lastOp.result = Str(Briefcase)

\* ------------------------------------------------------------------------
\* C27: the tags of a file are its inline tags together with its
\* frontmatter tags (one string or a list), and a rule whose tag differs
\* from one of them only by a leading '#' and surrounding whitespace
\* matches: when the frontmatter yields nothing and tags are enabled, the
\* result is the icon of such a rule if there is one with a non-blank icon,
\* and the folder tier's result if there is none
\* ------------------------------------------------------------------------
\* the spellings of one tag
Variants(core) ==
  {pre \o hash \o core \o post :
     pre \in {<< >>, <<" ">>}, hash \in {<< >>, <<"#">>},
     post \in {<< >>, <<" ">>}}

SameTag(ruleTag, fileTag) ==
  \E core \in {Urgent, Project, <<"7">>} :
    ruleTag \in Variants(core) /\ fileTag \in Variants(core)

\* the tags as the host reports them, from both sources; a member of the
\* list that is not a string counts with its text
ReportedTags(md) ==
  LET tags == md.frontmatter["tags"]
  IN IF ~md.exists THEN {}
     ELSE {md.tags[i] : i \in 1..Len(md.tags)}
            \cup (IF ~md.hasFrontmatter THEN {}
                  ELSE IF IsString(tags) THEN {tags.s}
                  ELSE IF tags.k = "object"
                  THEN {tags.a[i].s : i \in 1..Len(tags.a)}
                  ELSE {})

RulesForReportedTags(s, md) ==
  {i \in 1..Len(s.tagMappings) :
     /\ HasContent(s.tagMappings[i].icon)
     /\ \E t \in ReportedTags(md) : SameTag(s.tagMappings[i].tag, t)}

C27_TagsFromBothSourcesMatchNormalized ==
  (/\ FreshLookup
   /\ FrontmatterYieldsNothing(settings, LookedUpMetadata)
   /\ settings.enableTags)
  => IF RulesForReportedTags(settings, LookedUpMetadata) # {}
     THEN \E i \in RulesForReportedTags(settings, LookedUpMetadata) :
            lastOp.result = Str(settings.tagMappings[i].icon)
     ELSE lastOp.result = (IF settings.enableFolders
                           THEN getIconFromFolder(settings, lastOp.file)
                           ELSE Null)

\* the rule " #project" matched the frontmatter tags given as the one
\* string "project"
C27_Witness ==
  /\ FreshLookup
  /\ FrontmatterYieldsNothing(settings, LookedUpMetadata)
  /\ settings.enableTags
  /\ LookedUpMetadata.tags = << >>
  /\ LookedUpMetadata.frontmatter["tags"] = Str(Project)
  /\ settings.tagMappings = <<TagMapping(<<" ", "#">> \o Project, FolderIcon)>>
  /\ lastOp.result = Str(FolderIcon)

\* the rule "urgent" matched the inline tag "#urgent"
C27_WitnessInline ==
  /\ FreshLookup
  /\ settings.enableTags
  /\ ~LookedUpMetadata.hasFrontmatter
  /\ <<"#">> \o Urgent \in ReportedTags(LookedUpMetadata)
  /\ settings.tagMappings = <<TagMapping(Urgent, Alert)>>
  /\ lastOp.result = Str(Alert)

\* ------------------------------------------------------------------------
\* C28: with frontmatter association enabled, the configured property
\* ("icon" when no name is configured) gives the result exactly when it
\* holds a string with non-whitespace content, and the result is then that
\* string; for any other value the result is what the tag and folder tiers
\* give
\* ------------------------------------------------------------------------
C28_FrontmatterTierExactlyForNonBlankString ==
  (FreshLookup /\ settings.enableFrontmatter)
  => IF HasFrontmatterIcon(settings, LookedUpMetadata)
     THEN lastOp.result =
            LookedUpMetadata.frontmatter[ConfiguredProperty(settings)]
     ELSE lastOp.result =
            ResolveIcon([settings EXCEPT !.enableFrontmatter = FALSE],
                        LookedUpMetadata, lastOp.file)

\* the property holds one blank and the icon came from a tag rule
C28_Witness ==
  /\ FreshLookup
  /\ settings.enableFrontmatter
  /\ LookedUpMetadata.frontmatter[ConfiguredProperty(settings)] = Str(Blank)
  /\ lastOp.result = Str(Alert)

\* ------------------------------------------------------------------------
\* C29: when the folder tier decides and several matching rules with
\* non-blank icons share the greatest depth, the result is the icon of the
\* one that comes first in folderMappings
\* ------------------------------------------------------------------------
DeepestFolderRules(s, filePath) ==
  {i \in MatchingFolderRules(s, filePath) :
     \A j \in MatchingFolderRules(s, filePath) :
       RuleDepth(s, j) <= RuleDepth(s, i)}

C29_FirstOfDeepestFolderRulesWins ==
  (/\ FreshLookup
   /\ FrontmatterYieldsNothing(settings, LookedUpMetadata)
   /\ TagsYieldNothing(settings, LookedUpMetadata)
   /\ ~FoldersYieldNothing(settings, lastOp.file))
  => lastOp.result =
       Str(settings.folderMappings[
             Minimum(DeepestFolderRules(settings, lastOp.file))].icon)

\* two rules of one depth with different icons matched, the second in the
\* list being the first that was entered in the other order
C29_Witness ==
  /\ FreshLookup
  /\ FrontmatterYieldsNothing(settings, LookedUpMetadata)
  /\ TagsYieldNothing(settings, LookedUpMetadata)
  /\ Cardinality(DeepestFolderRules(settings, lastOp.file)) = 2
  /\ settings.folderMappings[1].icon = Zap
  /\ settings.folderMappings[2].icon = Briefcase
  /\ lastOp.result = Str(Zap)

\* ------------------------------------------------------------------------
\* C30: after updateFileViewIcons, no tab header and no inline title on
\* screen carries a marker other than the icon resolved for the file shown
\* in its own pane
\* ------------------------------------------------------------------------
FileViewElements == {e \in screen : e.surface \in {"tab", "title"}}

C30_FileViewMarkersOfOwnFile ==
  lastOp.op = "updateFileViewIcons" =>
    \A e \in FileViewElements :
      \A i \in 1..Len(dom[e]) :
        dom[e][i] = ResolveIcon(settings, meta[e.file], e.file)

\* ------------------------------------------------------------------------
\* C22: an editor that is in plain source mode has an empty decoration
\* set, in every state reached by edits, viewport changes, refresh signals
\* and mode switches
\* ------------------------------------------------------------------------
C22_NoDecorationsOutOfLivePreview ==
  \A v \in DOMAIN editors :
    ~editors[v].livePreview => editors[v].decorations = << >>

\* ------------------------------------------------------------------------
\* C26: an update rebuilds the decoration set exactly when the document
\* changed, the viewport changed or the refresh counter differs from the
\* value last observed; triggerIconRefresh adds one to the counter of every
\* editor and makes each rebuild once; an update that does not rebuild
\* leaves the decoration set as it was
\* ------------------------------------------------------------------------
RebuiltExactlyOnCause(v) ==
  LET u == lastUpdate[v]
  IN u.calls = 1 =>
       /\ u.builds = IF \/ u.docChanged
                        \/ u.viewportChanged
                        \/ editors[v].field # u.observed
                     THEN 1 ELSE 0
       /\ u.builds = 0 => editors[v].decorations = u.before

C26_RebuildExactlyOnCause ==
  /\ \A v \in DOMAIN editors : RebuiltExactlyOnCause(v)
  /\ lastOp.op = "triggerIconRefresh" =>
       \A v \in DOMAIN editors :
         /\ editors[v].field = lastUpdate[v].fieldBefore + 1
         /\ lastUpdate[v].calls = 1
         /\ lastUpdate[v].builds = 1

C26_Witness ==
  /\ lastOp.op = "triggerIconRefresh"
  /\ \A v \in DOMAIN editors : lastUpdate[v].builds = 1
  /\ \E v \in DOMAIN editors :
       editors[v].decorations # lastUpdate[v].before

C26_WitnessNoCause ==
  /\ lastOp.op = "select"
  /\ \E v \in DOMAIN editors :
       /\ lastUpdate[v].calls = 1
       /\ lastUpdate[v].builds = 0
       /\ editors[v].decorations # << >>

\* ------------------------------------------------------------------------
\* C23: of the debounce calls of one key that each come before the delay
\* of the one before has passed, only the last is followed by an
\* invocation: there is exactly one, of the last call's function, no
\* sooner than the delay after the last call and, timers being on time, no
\* later
\* ------------------------------------------------------------------------
PendingFor(key) ==
  {t \in hostTimers : t.id = debounceTimers[key] /\ t.key = key}

C23_BurstGivesOneInvocationOfLast ==
  \A key \in DOMAIN burst :
    LET b == burst[key]
    IN b.calls > 0 =>
         /\ b.runs <= 1
         /\ b.runs = 1 =>
              /\ b.ranFn = b.fn
              /\ b.ranAge = DebounceDelay
              /\ PendingFor(key) = {}
         /\ b.runs = 0 =>
              /\ \E t \in PendingFor(key) :
                   /\ t.fn = b.fn
                   /\ t.left + b.age = DebounceDelay
              /\ \A t \in hostTimers : t.key = key => t \in PendingFor(key)

C23_Witness ==
  /\ lastOp.op = "run"
  /\ \E key \in DOMAIN burst :
       /\ burst[key].calls = 2
       /\ burst[key].runs = 1
       /\ burst[key].fn = "updateSuggestionIcons"
       /\ \E other \in DOMAIN burst :
            /\ burst[other].runs = 0
            /\ burst[other].calls = 2
            /\ burst[other].age > 0
            /\ burst[other].age < DebounceDelay

\* ------------------------------------------------------------------------
\* C25: a run of setupFileExplorerObserver that finds no container leaves
\* one retry due in 500 ms; a run that finds it installs one observer and
\* leaves no retry; so the renderer always has either its one pending
\* attempt or its one observer, and a container that is there is observed
\* within 500 ms
\* ------------------------------------------------------------------------
SetupTimers ==
  {t \in hostTimers : t.fn \in {"initialize", "setupFileExplorerObserver"}}

C25_RetryUntilOneObserver ==
  settings.renderInFileLists =>
    /\ Cardinality(SetupTimers) + installed = 1
    /\ installed = 1 => container
    /\ \A t \in SetupTimers : t.left <= RetryDelay
    /\ lastOp.op \in {"initialize:retry",
                      "setupFileExplorerObserver:retry"} =>
         /\ ~container
         /\ \E t \in SetupTimers :
              t.fn = "setupFileExplorerObserver" /\ t.left = RetryDelay
    /\ lastOp.op \in {"initialize:installed",
                      "setupFileExplorerObserver:installed"} =>
         /\ installed = 1
         /\ SetupTimers = {}

C25_Witness ==
  /\ lastOp.op = "setupFileExplorerObserver:installed"
  /\ installed = 1
  /\ container
  /\ SetupTimers = {}

\* ------------------------------------------------------------------------
\* C24: when the host adds nothing more to the document, the surfaces
\* that watch the DOM come to rest: from some point on no debounce timer
\* is pending
\* ------------------------------------------------------------------------
NoPendingDebounce == \A key \in DebounceKeys : debounceTimers[key] = 0

C24_SurfacesComeToRest == <>[]NoPendingDebounce

\* ------------------------------------------------------------------------
\* C36: a step that is one getIconForFile(f), or one invalidateFile(f) with
\* the lookup of f that may follow it in the same handler, leaves the
\* cache entry of every other path and the settings as they were
\* ------------------------------------------------------------------------
TouchesOnly(file) ==
  /\ \A p \in Paths \ {file} : cache'[p] = cache[p]
  /\ settings' = settings

C36_OnlyTheEntryOfThePath ==
  [][lastOp'.op \in {"getIconForFile", "changed", "rename", "delete",
                     "create"}
       => TouchesOnly(lastOp'.file)]_vars

C36_Witness ==
  /\ lastOp.op = "delete"
  /\ lastOp.dropped # Undefined
  /\ cache[lastOp.file] = Undefined
  /\ \E p \in Paths \ {lastOp.file} : cache[p] # Undefined

C36_WitnessWrite ==
  /\ lastOp.op = "getIconForFile"
  /\ lastOp.reads = 1
  /\ \E p \in Paths \ {lastOp.file} : Truthy(cache[p])

\* ------------------------------------------------------------------------
\* C39: at every moment each debounce key has at most one pending timer
\* and every pending timer is the one debounceTimers records for its key;
\* a debounce call leaves the pending timers and the records of all keys
\* but one as they were, time left included
\* ------------------------------------------------------------------------
OnePendingTimerPerKey ==
  \A key \in DebounceKeys :
    Cardinality({t \in hostTimers : t.key = key}) <= 1

PendingTimersRecorded ==
  \A t \in hostTimers : debounceTimers[t.key] = t.id

OtherKeysKept(key) ==
  /\ \A t \in hostTimers : t.key # key => t \in hostTimers'
  /\ \A k \in DebounceKeys \ {key} : debounceTimers'[k] = debounceTimers[k]

C39_OneRecordedTimerPerKey ==
  /\ [](OnePendingTimerPerKey /\ PendingTimersRecorded)
  /\ [][lastOp'.op = "debounce"
          => \E key \in DebounceKeys :
               /\ OtherKeysKept(key)
               /\ \E t \in hostTimers' :
                    t.key = key /\ t.left = DebounceDelay]_vars

\* a key debounced again while its timer was pending, next to the timer of
\* another key that has been running for a while
C39_Witness ==
  /\ lastOp.op = "debounce"
  /\ \E t1, t2 \in hostTimers :
       /\ t1.key # t2.key
       /\ 0 < t1.left /\ t1.left < DebounceDelay
       /\ t2.left = DebounceDelay
       /\ burst[t2.key].calls = 2

\* ------------------------------------------------------------------------
\* C35: whenever no settings handler is suspended at its await, every cache
\* entry of an existing file is what the rules give for the file under the
\* current settings and the current metadata
\* ------------------------------------------------------------------------
Coherent(path) ==
  CacheHit(cache, path) => cache[path] = ResolveIcon(settings, meta[path], path)

C35_WitnessSettings ==
  /\ pending = << >>
  /\ lastOp.op \in {"updateSettings", "clearCache"}
  /\ lastOp.dropped = SomeEntries

\* ------------------------------------------------------------------------
\* C34: after a merge import that reported success, with "Skip Duplicates"
\* the list is the list as it was followed by exactly the imported rules
\* whose tag equals, letter case aside, the tag of no rule that was in the
\* list; with "Replace Existing" none of the rules kept from the old list
\* has the tag of an imported rule
\* ------------------------------------------------------------------------
EqualTags(a, b) ==
  /\ a.k = "string"
  /\ b.k = "string"
  /\ toLowerCase(a.s) = toLowerCase(b.s)

ImportedRules(imported) ==
  [i \in 1..Len(imported.items) |-> AsMapping(imported.items[i])]

RulesWithNewTag(imported, existing) ==
  LET New(imp) == \A i \in 1..Len(existing) : ~EqualTags(existing[i].tag, imp.tag)
  IN SelectSeq(ImportedRules(imported), New)

MergeImported ==
  /\ lastOp.op = "importMappings"
  /\ lastOp.result = "success"
  /\ lastOp.dropped.action = "merge"

C34_MergeSkipsOrReplacesDuplicates ==
  MergeImported =>
    LET existing == lastOp.prev.mappings
        imported == lastOp.dropped.imported
        kept == Len(modal.mappings) - Len(imported.items)
    IN /\ lastOp.dropped.handleDuplicates = "skip"
            => modal.mappings = existing \o RulesWithNewTag(imported, existing)
       /\ lastOp.dropped.handleDuplicates = "replace"
            => \A i \in 1..kept, j \in 1..Len(imported.items) :
                 ~EqualTags(modal.mappings[i].tag, imported.items[j].tag)

\* ------------------------------------------------------------------------
\* C38: every rule in settings.tagMappings has a string as its tag and a
\* string as its icon, and getIconFromTags does not raise for a file
\* tagged urgent
\* ------------------------------------------------------------------------
C38_StoredMappingsAreStrings ==
  /\ \A i \in 1..Len(settings.tagMappings) :
       /\ settings.tagMappings[i].tag.k = "string"
       /\ settings.tagMappings[i].icon.k = "string"
  /\ ~getIconFromTagsThrows(settings.tagMappings, {Urgent}, 1)

\* ------------------------------------------------------------------------
\* C33: after a reorder the list holds the rules it held, each as often as
\* before; the rule that was shown in the row of the button or handle is
\* the one that moved (one place up or down, to the top, to the bottom, to
\* the place of the rule shown in the row the drag ended over), the others
\* keeping their order; and settings.tagMappings is the new order
\* ------------------------------------------------------------------------
Count(seq, x) == Cardinality({i \in 1..Len(seq) : seq[i] = x})

Permutation(a, b) ==
  /\ Len(a) = Len(b)
  /\ \A i \in 1..Len(a) : Count(a, a[i]) = Count(b, a[i])

\* the place in mappings of the rule drawn in row d under the search text
RECURSIVE PlaceOfRow(_, _, _, _)
PlaceOfRow(mappings, input, d, i) ==
  IF i > Len(mappings) THEN 0
  ELSE IF handleSearch(<<mappings[i]>>, input) = << >>
  THEN PlaceOfRow(mappings, input, d, i + 1)
  ELSE IF d = 1 THEN i
  ELSE PlaceOfRow(mappings, input, d - 1, i + 1)

MovedTo(before, from, to) == spliceIn(splice(before, from), to, before[from])

ExpectedOrder(op, before, from, over) ==
  CASE op = "moveUp" -> IF from > 1 THEN MovedTo(before, from, from - 1)
                        ELSE before
    [] op = "moveDown" -> IF from < Len(before)
                          THEN MovedTo(before, from, from + 1) ELSE before
    [] op = "moveToTop" -> MovedTo(before, from, 1)
    [] op = "moveToBottom" -> MovedTo(before, from, Len(before))
    [] op = "drag" -> MovedTo(before, from, over)

ReorderOps == {"moveUp", "moveDown", "moveToTop", "moveToBottom", "drag"}

InModal(op) == op \in {"moveToTop", "moveToBottom", "drag"}

C33_ReorderMovesTheRowsRule ==
  lastOp.op \in ReorderOps =>
    LET before == lastOp.prev
        input == IF InModal(lastOp.op) THEN modal.searchInput ELSE << >>
        from == PlaceOfRow(before, input, lastOp.file, 1)
        over == IF lastOp.op = "drag"
                THEN PlaceOfRow(before, input, lastOp.oldPath, 1) ELSE 0
    IN /\ Permutation(before, settings.tagMappings)
       /\ settings.tagMappings = ExpectedOrder(lastOp.op, before, from, over)
       /\ InModal(lastOp.op) => modal.mappings = settings.tagMappings

\* ------------------------------------------------------------------------
\* C31: after a targeted re-render for a file, every element on screen of
\* the operation's surface that shows the file carries the marker of the
\* file's current resolution, and every element that shows another file
\* has the markers it had before
\* ------------------------------------------------------------------------
TargetSurfaces(op) ==
  CASE op = "FileListRenderer.updateSingleFileIcon" -> {"nav", "search"}
    [] op = "FileViewRenderer.updateSingleFileIcon" -> {"tab", "title"}
    [] op = "updateWikilinksForFile" -> {"wikilink"}
    [] OTHER -> {}

C31_TargetedTouchesExactlyTheFile ==
  TargetSurfaces(lastOp.op) # {} =>
    \A e \in screen :
      /\ (e.file = lastOp.file /\ e.surface \in TargetSurfaces(lastOp.op)
            /\ SurfaceEnabled(e))
           => InLine(e)
      /\ e.file # lastOp.file => dom[e] = lastOp.prev[e]

\* ------------------------------------------------------------------------
\* C32: the suggestion observer does not call debounce for a batch whose
\* records all have their target in the file explorer, the search results
\* or the metadata container; the metadata observer does not call it for a
\* batch in which no target is, or is inside, a metadata or multi-select
\* element and no added node is or holds one
\* ------------------------------------------------------------------------
Batch == lastOp.prev

InsideExcludedArea(node) ==
  /\ node.element
  /\ (node.classes \cup node.ancestors)
       \cap {"nav-files-container", "search-results", "metadata-container"}
       # {}

TouchesMetadata(record) ==
  \/ (record.target.classes \cup record.target.ancestors)
       \cap MetadataClasses # {}
  \/ \E node \in record.addedNodes :
       (node.classes \cup node.descendants) \cap MetadataClasses # {}

AllInsideExcludedArea(batch) ==
  \A i \in 1..Len(batch) : InsideExcludedArea(batch[i].target)

NoneTouchesMetadata(batch) ==
  \A i \in 1..Len(batch) : ~TouchesMetadata(batch[i])

NothingScheduled ==
  /\ lastOp'.result = FALSE
  /\ UNCHANGED <<hostTimers, debounceTimers>>

C32_WatchesAreFilteredPerSurface ==
  [][/\ (lastOp'.op = "suggestions" /\ AllInsideExcludedArea(lastOp'.prev))
          => NothingScheduled
     /\ (lastOp'.op = "metadata" /\ NoneTouchesMetadata(lastOp'.prev))
          => NothingScheduled]_vars

\* a batch of two records inside the properties panel and the explorer in
\* which a suggestion row is added has been let pass
C32_Witness ==
  /\ lastOp.op = "suggestions"
  /\ Len(Batch) = 2
  /\ AllInsideExcludedArea(Batch)
  /\ \E i \in 1..Len(Batch) :
       \E node \in Batch[i].addedNodes : "suggestion-item" \in node.classes
  /\ lastOp.result = FALSE
  /\ hostTimers = {}

\* a batch outside the properties panel that adds markers and text only
\* has been let pass by the metadata observer
C32_WitnessMetadata ==
  /\ lastOp.op = "metadata"
  /\ NoneTouchesMetadata(Batch)
  /\ \E i \in 1..Len(Batch) : Batch[i].addedNodes # {}
  /\ lastOp.result = FALSE
  /\ hostTimers = {}

\* ------------------------------------------------------------------------
\* C37: after any number of reloads only the newest renderer's observers,
\* timers and event handlers are live, no timer, observer or handler of a
\* replaced renderer runs, and the connected observers are never more than
\* those of a single renderer
\* ------------------------------------------------------------------------
SingleRendererObservers ==
  Cardinality(RendererObservers(RenderSettings) \cup {"fileexplorer"})

C37_OnlyTheNewestRendererIsLive ==
  /\ \A r \in observers \cup timers \cup subs : r.age = 0
  /\ lastOp.op \in {"timer", "observer", "handler"} => lastOp.prev.age = 0
  /\ Cardinality(observers) <= SingleRendererObservers

====
